---- MODULE Spec2Model ----
(***************************************************************************)
(* Roast synchronisation server: idempotent roast upsert, conflict         *)
(* arbitration and the ingredient stock ledger.                            *)
(*                                                                         *)
(* The durable store is PostgreSQL at its default isolation level (READ    *)
(* COMMITTED): a plain SELECT reads the last committed row, SELECT ... FOR *)
(* UPDATE waits for the row lock and then reads the last committed row,    *)
(* and locks are held until the transaction commits or rolls back.  Every  *)
(* request owns one ORM session; an object that is already in the          *)
(* session's identity map keeps its loaded attribute values when a later   *)
(* SELECT of the same session returns the same row (no populate_existing). *)
(*                                                                         *)
(* Weights are integers counting 0.00001 kg (Kg == 100000).  The stock     *)
(* column is NUMERIC(10,3): a stored stock is a multiple of Gram.          *)
(***************************************************************************)
EXTENDS Integers, Sequences, FiniteSets, TLC

\* ---------------------------------------------------------------- units
Gram == 100
Kg == 100000

\* ---------------------------------------------------------------- bounds
MaxTime == 1
MaxAdds == 1
MaxPatches == 1
MaxSeqReqs == 3
MaxConcReqs == 2
MaxRaceReqs == 3
MaxHours == 26
MaxGoals == 2
MaxSamples == 4
MaxChecks == 3
MaxClock == 30
MaxBlendOps == 3

\* ---------------------------------------------------------------- universe
Procs == {"p1", "p2"}
Users == {"u1", "u2"}
RoastIds == {"r1", "r2"}
Keys == {"k1"}
NoKey == "-"
Coffees == {"A", "B", "P"}
NoCoffee == "-"
BlendIds == {"b1"}
NoBlend == "-"
NoBatch == "-"
Free == "-"

\* Coffee(stock_weight_kg=Decimal("1000")) for an unknown hr_id
PlaceholderStock == 1000 * Kg
\* counter_trigger_value of the active counter task
CounterTrigger == 2
NoRow == -1
Absent == -1
\* IDEMPOTENCY_TTL_HOURS; the clock counts hours
IDEMPOTENCY_TTL_HOURS == 24
\* Batch.initial_weight_kg of the production batch
BatchInitial == 5 * Kg

VARIABLES
    stock,      \* coffees.stock_weight_kg per ingredient (NoRow: no such row)
    roasts,     \* roasts table, by primary key
    cache,      \* idempotency_cache table, by primary key
    recipe,     \* blends.recipe
    counter,    \* production_tasks.counter_current_value of the counter task
    batch,      \* the production batch row
    now,        \* wall clock
    lock,       \* row locks on coffees (FOR UPDATE), by holder
    proc,       \* per in-flight request: position and session state
    base,       \* history: stock each ingredient started with
    added,      \* history: stock added by add-stock, per ingredient
    nAdds,      \* history: number of add-stock requests served
    nPatches,   \* history: number of PATCH / blend updates served
    nReq,       \* history: number of roast POST / DELETE requests received
    okKeys,     \* history: keys of POSTs answered successfully
    pre,        \* history: committed stock just before each roast's creation
    clean,      \* history: no other ledger operation since the roast's creation
    restored,   \* history: number of committed restorations per roast
    preBatch,   \* history: the batch row just before each roast's creation
    goals,          \* the active roast goals, in query order
    background,     \* what the roast's backgroundUUID resolves to
    ref_values,     \* the reference profile's value per goal parameter
    actual_values,  \* the roast's value per goal parameter
    goals_check,    \* what check_roast_against_goals returned
    goals_status,   \* the goals_status field of the roast in the list response
    blob,           \* roast_profiles.data of the roast
    alog_file,      \* the roast's profile file on disk
    telemetry,      \* the roast's timex, temp1, temp2 and timeindex columns
    scalars,        \* the roast's scalar event columns
    profile_data,   \* the answer of GET /roasts/{id}/profile/data
    tz,             \* the TZ environment variable
    task,           \* the schedule-type production task
    one_time,       \* the one_time production task
    history,        \* production_task_history: local time of each entry
    notifications,  \* number of notifications sent
    nChecks,        \* history: number of runs of the schedule check
    blends,         \* blends rows of the blend endpoints, by id
    blend_status,   \* status of the last answer of a blend endpoint
    nBlendOps,      \* history: number of requests to the blend endpoints
    has_details,    \* the roast row carries operator, DEV_time, DEV_ratio and weight_loss
    fetched,        \* the last GET /roasts/{id}: its inputs, the row it read and its status
    machine_task,   \* the counter task bound to a machine
    made_on,        \* the machine name each roast's body carried
    fields,         \* label, notes and whole_color of each roast row
    carried         \* label, notes and whole_color as the body of each request carries them

dbvars == <<stock, roasts, cache, recipe, counter, batch>>
histvars == <<base, added, nAdds, nPatches, nReq, okKeys, pre, clean, restored, preBatch>>
reqvars == <<stock, roasts, cache, recipe, counter, batch, now, lock, proc,
             base, added, nAdds, nPatches, nReq, okKeys, pre, clean, restored, preBatch>>
qcvars == <<goals, background, ref_values, actual_values, goals_check, goals_status>>
profvars == <<blob, alog_file, telemetry, scalars, profile_data>>
schedvars == <<tz, task, one_time, history, notifications, nChecks>>
blendvars == <<blends, blend_status, nBlendOps>>
getvars == <<has_details, fetched>>
machvars == <<machine_task, made_on>>
fieldvars == <<fields, carried>>
auxvars == <<qcvars, profvars, schedvars, blendvars, getvars, machvars, fieldvars>>
vars == <<reqvars, auxvars>>

\* ---------------------------------------------------------------- rows
NoRoast ==
    [ex |-> FALSE, user |-> "-", mod |-> 0, green |-> 0, coffee |-> NoCoffee,
     blend |-> NoBlend, ded |-> <<>>, batch_id |-> NoBatch, roasted |-> 0]

NoEntry == [ex |-> FALSE, data |-> NoRoast, at |-> 0]

NoResp == [status |-> 0, src |-> "-", data |-> NoRoast, smod |-> Absent, cmod |-> Absent]

IdleProc ==
    [pc |-> "idle", op |-> "-", key |-> NoKey, user |-> "-", rid |-> "-",
     amount |-> 0, cm |-> Absent, mod |-> 0, pol |-> "-", coffee |-> NoCoffee, blend |-> NoBlend,
     comps |-> <<>>, idx |-> 1, loaded |-> {}, dirty |-> {}, created |-> {},
     sess |-> [c \in Coffees |-> 0], ded |-> <<>>, code |-> 0, resp |-> NoResp,
     batch_id |-> NoBatch, roasted |-> 0, date |-> FALSE, idfield |-> "-", body |-> "-",
     task_value |-> 0]

\* ---------------------------------------------------------------- arithmetic
\* NUMERIC(10,3) on store: PostgreSQL rounds to three decimals, ties away
\* from zero (all stored values here are >= 0 or rejected by the constraint).
RoundNumeric3(x) ==
    IF x >= 0 THEN ((x + 50) \div Gram) * Gram
    ELSE 0 - (((0 - x) + 50) \div Gram) * Gram

\* Binary doubles of the half-gram values k.kkk5 kg that lie above the
\* decimal tie, for the quantities a component share can take here
\* (0.0005, 0.0015, 0.0025, 0.0035 round up; 0.0045, 0.5005, 1.0005 down).
FloatTieUp == {50, 150, 250, 350, 250050}

\* round(float(deduct_weight), 3)
RoundFloat3(x) ==
    LET r == x % Gram
        q == (x \div Gram) * Gram
    IN  IF r < 50 THEN q
        ELSE IF r > 50 THEN q + Gram
        ELSE IF x \in FloatTieUp THEN q + Gram ELSE q

\* Decimal(str(amount)) * Decimal(str(percentage)) / Decimal("100"),
\* Decimal(str(amount)) * Decimal(str(ratio)) with ratio = percentage / 100
Share(amount, pct) == (amount * pct) \div 100

\* the sufficiency check dropped
SufficientAlways(have, want) == TRUE

\* stock_weight_kg >= deduct_weight
Sufficient(have, want) == have >= want

\* CheckConstraint('stock_weight_kg >= 0')
StockCheck(v) == v >= 0

\* the deducted_weight_kg written to the ledger snapshot
Recorded(pol, w) == IF pol = "single" THEN w ELSE RoundFloat3(w)

\* an equal timestamp is taken for a conflict
ConflictOrEqual(cm, sm) == cm # Absent /\ cm <= sm

\* client_modified < server_modified
Conflict(cm, sm) == cm # Absent /\ cm < sm

\* the lookup never finds the entry
IdemCachedMiss(k) == NoEntry

\* the lookup of the caller's roast finds nothing
ExistingNever(row, u) == FALSE

\* select(Roast).where(Roast.id == roast_uuid, Roast.user_id == current_user.id)
Existing(row, u) == row.ex /\ row.user = u

\* _get_idempotency_cached
IdemCached(k) == IF k = NoKey THEN NoEntry ELSE cache[k]

\* Blend.user_id
BlendOwner(b) == "u1"

\* ---------------------------------------------------------------- inputs
ClientMods == {Absent} \cup (0 .. MaxTime)

Payload(a, c, b, s) == [amount |-> a, coffee |-> c, blend |-> b, spec |-> s]

\* recipes the Blend schema accepts (two or more components, unique
\* ingredients, percentages summing to 100)
Recipes == { <<<<"A", 60>>, <<"B", 40>>>>, <<<<"A", 50>>, <<"B", 50>>>> }

\* ---------------------------------------------------------------- helpers
RECURSIVE SumFor(_, _)
\* quantity recorded for ingredient c in a ledger snapshot
SumFor(ded, c) ==
    IF ded = <<>> THEN 0
    ELSE (IF Head(ded)[1] = c THEN Head(ded)[2] ELSE 0) + SumFor(Tail(ded), c)

RECURSIVE SumRoasts(_, _)
SumRoasts(S, c) ==
    IF S = {} THEN 0
    ELSE LET r == CHOOSE x \in S : TRUE
         IN  SumFor(roasts[r].ded, c) + SumRoasts(S \ {r}, c)

\* quantity recorded for ingredient c over all stored roasts
LedgerTotal(c) == SumRoasts(RoastIds, c)

Release(p) == [c \in Coffees |-> IF lock[c] = p THEN Free ELSE lock[c]]

\* a keyed request that ends in a client error goes on to the cache step
FinishCachingErrors(me, st, src, data) ==
    [IdleProc EXCEPT !.pc = IF me.key # NoKey /\ st \in 400 .. 499 /\ me.pc # "savecache"
                              THEN "savecache" ELSE "done",
                     !.op = me.op, !.key = me.key, !.rid = me.rid,
                     !.user = me.user, !.cm = me.cm, !.date = me.date,
                     !.idfield = me.idfield, !.body = me.body, !.code = st,
                     !.resp = [NoResp EXCEPT !.status = st, !.src = src, !.data = data]]

\* the response of a request that is answered: _artisan_response or the HTTPException raised
Finish(me, st, src, data) ==
    [IdleProc EXCEPT !.pc = "done", !.op = me.op, !.key = me.key, !.rid = me.rid,
                     !.user = me.user, !.cm = me.cm, !.date = me.date,
                     !.idfield = me.idfield, !.body = me.body,
                     !.resp = [NoResp EXCEPT !.status = st, !.src = src, !.data = data]]

Succeeded(k, st) == IF k # NoKey /\ st < 300 THEN okKeys \cup {k} ELSE okKeys

Quiet == \A p \in Procs : proc[p].pc = "idle"

\* ---------------------------------------------------------------- POST /aroast
\* Step 1: the idempotency cache is consulted before the body is read.
Post(p, KS, cap) ==
    /\ UNCHANGED auxvars
    /\ proc[p].pc = "idle"
    /\ nReq < cap
    /\ nReq' = nReq + 1
    /\ \E k \in KS :
         LET me == [IdleProc EXCEPT !.op = "post", !.key = k]
             hit == IdemCached(k)
         IN  IF hit.ex
               THEN /\ proc' = [proc EXCEPT ![p] = Finish(me, 200, "cache", hit.data)]
                    /\ okKeys' = Succeeded(k, 200)
               ELSE /\ proc' = [proc EXCEPT ![p] = [me EXCEPT !.pc = "lookup"]]
                    /\ okKeys' = okKeys
    /\ UNCHANGED <<dbvars, now, lock, base, added, nAdds, nPatches, pre, clean, restored,
                   preBatch>>

\* the request bodies a client population sends
\* (by default the body is a JSON object, the roast is named by "roast_id",
\* belongs to no batch and carries no end weight)
Clients(US, RS, PS, CMS, DS) ==
    [users |-> US, rids |-> RS, payloads |-> PS, mods |-> CMS, dates |-> DS,
     idfields |-> {"roast_id"}, batches |-> {NoBatch}, ends |-> {Absent},
     bodies |-> {"json"}]

\* what a request body can be
BodyKinds ==
    {"json", "empty", "gzip_bad_header", "gzip_truncated", "gzip_corrupt",
     "not_utf8", "not_json", "not_object", "no_id", "bad_id"}

\* Steps 2-3.  gzip.decompress raises BadGzipFile (an OSError) on a bad
\* header, EOFError on a truncated stream and zlib.error on corrupt data;
\* only OSError is caught.  0: the body is accepted.
ParseStatus(kind) ==
    IF kind = "json" THEN 0
    ELSE IF kind \in {"gzip_truncated", "gzip_corrupt"} THEN 500
    ELSE 400

\* the fields of the restricted subset that are modelled; ground_color and
\* cupping_score are handled as whole_color is
FieldKeys == {"label", "notes", "whole_color"}

\* None where a text is expected (None where a number is expected is Absent)
NoText == "<None>"

\* a body that carries no field of the restricted subset
NoBody == [k \in {} |-> NoText]

\* the defaults of the fields a client suppresses
SUPPRESSION_DEFAULTS == [label |-> "", notes |-> "", whole_color |-> 0]

\* _restore_suppressed_fields: every key the body lacks gets its default
restore_suppressed_fields(data) ==
    [k \in FieldKeys |-> IF k \in DOMAIN data THEN data[k] ELSE SUPPRESSION_DEFAULTS[k]]

\* body.get(key), with none for a missing key
BodyGet(body, key, none) == IF key \in DOMAIN body THEN body[key] ELSE none

\* the partial-update branch: each field whose value in the body is not None is
\* written (texts of the model are shorter than the 255 and 2000 characters kept,
\* numbers are integers)
MergedFields(row, body) ==
    [label |-> IF BodyGet(body, "label", NoText) # NoText
                 THEN body["label"]
                 ELSE row.label,
     notes |-> IF BodyGet(body, "notes", NoText) # NoText
                 THEN (IF body["notes"] # "" THEN body["notes"] ELSE NoText)
                 ELSE row.notes,
     whole_color |-> IF BodyGet(body, "whole_color", Absent) # Absent
                       THEN body["whole_color"]
                       ELSE row.whole_color]

\* the fields of a new row: str(label), notes as it is, int(whole_color)
CreatedFields(body) ==
    [label |-> IF BodyGet(body, "label", "") = NoText THEN "None" ELSE BodyGet(body, "label", ""),
     notes |-> BodyGet(body, "notes", NoText),
     whole_color |-> BodyGet(body, "whole_color", 0)]

\* patch_roast: each key of the payload is written; an empty label keeps the label
PatchedFields(row, payload) ==
    [label |-> IF "label" \in DOMAIN payload /\ payload["label"] \notin {"", NoText}
                 THEN payload["label"]
                 ELSE row.label,
     notes |-> IF "notes" \in DOMAIN payload
                 THEN (IF payload["notes"] \notin {"", NoText} THEN payload["notes"] ELSE NoText)
                 ELSE row.notes,
     whole_color |-> IF "whole_color" \in DOMAIN payload
                       THEN payload["whole_color"]
                       ELSE row.whole_color]

\* the fields of a row that was never written
NoFields == [label |-> "", notes |-> NoText, whole_color |-> 0]

\* the Roast row a creation inserts
NewRoast(u, m, a, c, b, ded) ==
    [ex |-> TRUE, user |-> u, mod |-> m, green |-> RoundNumeric3(a), coffee |-> c,
     blend |-> b, ded |-> ded, batch_id |-> NoBatch, roasted |-> 0]

\* blend_id_val: a blend string that names a Blend of the caller
ResolvedBlend(u, pl) ==
    IF pl.spec = <<>> /\ pl.blend \in BlendIds /\ BlendOwner(pl.blend) = u
    THEN pl.blend ELSE NoBlend

\* the blend policies are tried before the single ingredient
PolicyBlendFirst(u, pl) ==
    LET a == IF pl.amount = Absent THEN 0 ELSE pl.amount
    IN  IF pl.spec # <<>> /\ a > 0 THEN "inline"
        ELSE IF ResolvedBlend(u, pl) # NoBlend /\ a > 0 THEN "blend"
        ELSE IF pl.coffee # NoCoffee /\ a > 0 THEN "single"
        ELSE "none"

\* which deduction policy step 13 takes
Policy(u, pl) ==
    LET a == IF pl.amount = Absent THEN 0 ELSE pl.amount
    IN  IF pl.coffee # NoCoffee /\ a > 0 THEN "single"
        ELSE IF pl.spec # <<>> /\ a > 0 THEN "inline"
        ELSE IF ResolvedBlend(u, pl) # NoBlend /\ a > 0 THEN "blend"
        ELSE "none"

Components(u, pl) ==
    LET pol == Policy(u, pl)
    IN  IF pol = "single" THEN << <<pl.coffee, 100>> >>
        ELSE IF pol = "inline" THEN pl.spec
        ELSE IF pol = "blend" THEN recipe[ResolvedBlend(u, pl)]
        ELSE <<>>

\* Steps 2-12: body, roast lookup, conflict check, partial update, existing
\* roast, resolution of the ingredient and the blend.  The request body is
\* read here, so its content is chosen here.
Lookup(p, cl) ==
    /\ proc[p].pc = "lookup"
    /\ \E u \in cl.users, rid \in cl.rids, pl \in cl.payloads, cm \in cl.mods, date \in cl.dates,
          fld \in cl.idfields, lot \in cl.batches, endw \in cl.ends, bk \in cl.bodies :
         LET me == [proc[p] EXCEPT !.user = u, !.rid = rid, !.cm = cm, !.date = date,
                                   !.idfield = fld, !.body = bk]
             row == roasts[rid]
             existing == Existing(row, u)
             a == IF pl.amount = Absent THEN 0 ELSE pl.amount
             c == pl.coffee
             known == c # NoCoffee /\ stock[c] # NoRow
             pol == Policy(u, pl)
             comps == Components(u, pl)
         IN
         IF ParseStatus(bk) # 0
           THEN \* 2-3. the body is rejected (or the request dies on it)
                /\ proc' = [proc EXCEPT ![p] = Finish(me, ParseStatus(bk), "error", NoRoast)]
                /\ UNCHANGED <<roasts, okKeys>>
         ELSE IF existing /\ Conflict(cm, row.mod)
           THEN \* 6. 409 with both timestamps, nothing written
                /\ proc' = [proc EXCEPT ![p] =
                        [Finish(me, 409, "conflict", NoRoast) EXCEPT
                            !.resp.smod = row.mod, !.resp.cmod = cm]]
                /\ UNCHANGED <<roasts, okKeys>>
         ELSE IF ~date /\ fld # "roast_id"
           THEN \* 8. the body names the roast by "id" and has no date: 400
                /\ proc' = [proc EXCEPT ![p] = Finish(me, 400, "error", NoRoast)]
                /\ UNCHANGED <<roasts, okKeys>>
         ELSE IF ~date /\ ~existing /\ cm = Absent /\ pl.amount = Absent
           THEN \* 7. no date can be derived: 404
                /\ proc' = [proc EXCEPT ![p] = Finish(me, 404, "error", NoRoast)]
                /\ UNCHANGED <<roasts, okKeys>>
         ELSE IF ~date /\ existing
           THEN \* 7. partial update: modified_at := now, commit
                LET upd == [row EXCEPT !.mod = now,
                                       !.roasted = IF endw # Absent THEN RoundNumeric3(endw)
                                                   ELSE row.roasted]
                IN  /\ roasts' = [roasts EXCEPT ![rid] = upd]
                    /\ IF me.key # NoKey
                         THEN /\ proc' = [proc EXCEPT ![p] =
                                    [me EXCEPT !.pc = "savecache", !.code = 200,
                                               !.resp.data = upd, !.resp.src = "partial"]]
                              /\ okKeys' = okKeys
                         ELSE /\ proc' = [proc EXCEPT ![p] = Finish(me, 200, "partial", upd)]
                              /\ okKeys' = okKeys
         ELSE IF existing
           THEN \* 9. the roast exists: it is returned as it is
                /\ IF me.key # NoKey
                     THEN proc' = [proc EXCEPT ![p] =
                                    [me EXCEPT !.pc = "savecache", !.code = 200,
                                               !.resp.data = row, !.resp.src = "existing"]]
                     ELSE proc' = [proc EXCEPT ![p] = Finish(me, 200, "existing", row)]
                /\ UNCHANGED <<roasts, okKeys>>
         ELSE \* 10-12. resolve; an unknown hr_id gets a placeholder row (flushed)
                /\ proc' = [proc EXCEPT ![p] =
                        [me EXCEPT !.pc = IF comps = <<>> THEN "commit" ELSE "deduct",
                                   !.amount = a,
                                   !.mod = IF cm # Absent THEN cm ELSE now,
                                   !.pol = pol,
                                   !.coffee = c,
                                   !.blend = ResolvedBlend(u, pl),
                                   !.batch_id = lot,
                                   !.roasted = IF endw # Absent THEN RoundNumeric3(endw) ELSE 0,
                                   !.comps = comps,
                                   !.idx = 1,
                                   !.loaded = IF c # NoCoffee THEN {c} ELSE {},
                                   !.created = IF c # NoCoffee /\ ~known THEN {c} ELSE {},
                                   !.sess = [x \in Coffees |->
                                               IF x = c
                                               THEN (IF known THEN stock[c] ELSE PlaceholderStock)
                                               ELSE 0]]]
                /\ UNCHANGED <<roasts, okKeys>>
    /\ UNCHANGED <<stock, cache, recipe, counter, batch, now, lock,
                   base, added, nAdds, nPatches, nReq, pre, clean, restored, preBatch>>

\* create_or_update_roast, steps 1-12, for a body without the restricted fields read
PostLookup(p, cl) ==
    /\ UNCHANGED auxvars
    /\ Lookup(p, cl)

\* create_or_update_roast, steps 1-12, with the body's label, notes and whole_color:
\* step 4 restores the suppressed fields, the partial-update branch merges them
PostLookupFields(p, cl, body) ==
    /\ Lookup(p, cl)
    /\ LET data == restore_suppressed_fields(body)
           rid == proc'[p].rid
       IN  /\ carried' = [carried EXCEPT ![p] = body]
           /\ fields' = IF proc'[p].resp.src = "partial"
                          THEN [fields EXCEPT ![rid] = MergedFields(fields[rid], data)]
                          ELSE fields
    /\ UNCHANGED <<qcvars, profvars, schedvars, blendvars, getvars, machvars>>

\* Step 13, one ingredient per step: SELECT ... FOR UPDATE, sufficiency
\* check, deduction and ledger entry.  The row read under the lock only
\* fills an object the session has not loaded before.
PostDeduct(p) ==
    /\ UNCHANGED auxvars
    /\ proc[p].pc = "deduct"
    /\ LET me == proc[p]
           comp == me.comps[me.idx]
           c == comp[1]
           w == IF me.pol = "single" THEN me.amount ELSE Share(me.amount, comp[2])
           visible == c \in Coffees /\ (stock[c] # NoRow \/ c \in me.created)
           skip == ~visible \/ (me.pol = "inline" /\ comp[2] <= 0)
           have == IF c \in me.loaded THEN me.sess[c] ELSE stock[c]
           nextpc == IF me.idx = Len(me.comps) THEN "commit" ELSE "deduct"
       IN
       IF skip
         THEN /\ proc' = [proc EXCEPT ![p] = [me EXCEPT !.idx = me.idx + 1, !.pc = nextpc]]
              /\ lock' = lock
         ELSE /\ lock[c] \in {Free, p}
              /\ lock' = [lock EXCEPT ![c] = IF c \in me.created THEN lock[c] ELSE p]
              /\ IF Sufficient(have, w)
                   THEN proc' = [proc EXCEPT ![p] =
                            [me EXCEPT !.idx = me.idx + 1, !.pc = nextpc,
                                       !.loaded = me.loaded \cup {c},
                                       !.dirty = me.dirty \cup {c},
                                       !.sess[c] = have - w,
                                       !.ded = Append(me.ded, <<c, Recorded(me.pol, w)>>)]]
                   ELSE proc' = [proc EXCEPT ![p] =
                            [me EXCEPT !.idx = me.idx + 1, !.pc = nextpc,
                                       !.loaded = me.loaded \cup {c},
                                       !.sess[c] = have]]
    /\ UNCHANGED <<dbvars, now, histvars>>

\* what the flush writes to coffees: new placeholder rows and changed stocks
Flushed(me) ==
    [c \in Coffees |->
        IF c \in me.dirty \/ c \in me.created THEN RoundNumeric3(me.sess[c]) ELSE stock[c]]

\* the roast is written without regard to a stored one of the same id
FlushFailsNoPk(me) ==
    \/ \E c \in me.created : stock[c] # NoRow
    \/ \E c \in me.dirty \cup me.created :
          ~StockCheck(IF c \in me.dirty \/ c \in me.created THEN RoundNumeric3(me.sess[c])
                      ELSE stock[c])

\* the flush fails: duplicate roast id, duplicate hr_id, or the check constraint
FlushFails(me) ==
    \/ roasts[me.rid].ex
    \/ \E c \in me.created : stock[c] # NoRow
    \/ \E c \in me.dirty \cup me.created : ~StockCheck(Flushed(me)[c])

\* Steps 14-15: the roast row and the stock changes commit together.
Commit(p) ==
    /\ proc[p].pc = "commit"
    /\ LET me == proc[p]
           row == [NewRoast(me.user, me.mod, me.amount, me.coffee, me.blend, me.ded)
                     EXCEPT !.batch_id = me.batch_id, !.roasted = me.roasted]
       IN
       IF FlushFails(me)
         THEN /\ proc' = [proc EXCEPT ![p] = Finish(me, 500, "error", NoRoast)]
              /\ UNCHANGED <<stock, roasts, base, pre, clean, restored, preBatch>>
         ELSE /\ stock' = Flushed(me)
              /\ roasts' = [roasts EXCEPT ![me.rid] = row]
              /\ proc' = [proc EXCEPT ![p] =
                    [IdleProc EXCEPT !.pc = "counter", !.op = "post", !.key = me.key,
                                     !.rid = me.rid, !.user = me.user, !.cm = me.cm,
                                     !.code = 201,
                                     !.resp.data = row, !.resp.src = "new"]]
              /\ base' = [c \in Coffees |->
                            IF c \in me.created THEN PlaceholderStock ELSE base[c]]
              /\ pre' = [pre EXCEPT ![me.rid] =
                            [c \in Coffees |->
                               IF c \in me.created THEN PlaceholderStock ELSE stock[c]]]
              /\ clean' = [r \in RoastIds |->
                             IF r = me.rid THEN TRUE ELSE clean[r] /\ Flushed(me) = stock]
              /\ restored' = [restored EXCEPT ![me.rid] = 0]
              /\ preBatch' = [preBatch EXCEPT ![me.rid] = batch]
    /\ lock' = Release(p)
    /\ UNCHANGED <<cache, recipe, counter, batch, now, added, nAdds, nPatches, nReq, okKeys>>

\* create_or_update_roast, steps 13-14, for a body without the restricted fields read
PostCommit(p) ==
    /\ UNCHANGED auxvars
    /\ Commit(p)

\* create_or_update_roast, steps 13-14: the new row takes label, notes and whole_color
\* from the body
PostCommitFields(p) ==
    /\ Commit(p)
    /\ fields' = IF proc'[p].pc = "counter"
                   THEN [fields EXCEPT ![proc[p].rid] =
                                        CreatedFields(restore_suppressed_fields(carried[p]))]
                   ELSE fields
    /\ UNCHANGED carried
    /\ UNCHANGED <<qcvars, profvars, schedvars, blendvars, getvars, machvars>>

\* Step 15.5: check_counter_tasks, in its own transaction after the commit.
PostCounter(p) ==
    /\ UNCHANGED auxvars
    /\ proc[p].pc = "counter"
    /\ counter' = IF counter + 1 >= CounterTrigger THEN 0 ELSE counter + 1
    /\ LET me == proc[p]
       IN  IF me.key # NoKey
             THEN /\ proc' = [proc EXCEPT ![p].pc = "savecache"]
                  /\ okKeys' = okKeys
             ELSE /\ proc' = [proc EXCEPT ![p] = Finish(me, 201, "new", me.resp.data)]
                  /\ okKeys' = okKeys
    /\ UNCHANGED <<stock, roasts, cache, recipe, batch, now, lock,
                   base, added, nAdds, nPatches, nReq, pre, clean, restored, preBatch>>

\* Step 15.5 when check_counter_tasks fails: the exception is logged, the
\* counter transaction rolled back and the request goes on.
PostCounterFails(p) ==
    /\ UNCHANGED auxvars
    /\ proc[p].pc = "counter"
    /\ LET me == proc[p]
       IN  IF me.key # NoKey
             THEN proc' = [proc EXCEPT ![p].pc = "savecache"]
             ELSE proc' = [proc EXCEPT ![p] = Finish(me, 201, "new", me.resp.data)]
    /\ UNCHANGED <<dbvars, now, lock, histvars>>

\* Step 15.5 statement by statement.  check_counter_tasks selects the active
\* counter tasks with a plain SELECT ...
PostCounterSelect(p) ==
    /\ UNCHANGED auxvars
    /\ proc[p].pc = "counter"
    /\ proc' = [proc EXCEPT ![p].pc = "increment", ![p].task_value = counter]
    /\ UNCHANGED <<dbvars, now, lock, histvars>>

AfterCounter(me) ==
    IF me.key # NoKey THEN [me EXCEPT !.pc = "savecache"]
    ELSE Finish(me, 201, "new", me.resp.data)

\* ... adds 1 to the value it has read and commits: together with the history
\* entry when the trigger value is reached (trigger_task_notification) ...
PostCounterIncrement(p) ==
    /\ proc[p].pc = "increment"
    /\ LET me == proc[p]
           value == me.task_value + 1
       IN  /\ counter' = value
           /\ IF value >= CounterTrigger
                THEN /\ history' = Append(history, me.rid)
                     /\ proc' = [proc EXCEPT ![p].pc = "reset"]
                ELSE /\ history' = history
                     /\ proc' = [proc EXCEPT ![p] = AfterCounter(me)]
    /\ UNCHANGED <<stock, roasts, cache, recipe, batch, now, lock, histvars>>
    /\ UNCHANGED <<tz, task, one_time, notifications, nChecks>>
    /\ UNCHANGED <<qcvars, profvars, blendvars, getvars, machvars, fieldvars>>

\* ... and, after a firing, sets the value to 0 (counter_reset_on_trigger)
\* and commits again
PostCounterReset(p) ==
    /\ UNCHANGED auxvars
    /\ proc[p].pc = "reset"
    /\ counter' = 0
    /\ proc' = [proc EXCEPT ![p] = AfterCounter(proc[p])]
    /\ UNCHANGED <<stock, roasts, cache, recipe, batch, now, lock, histvars>>

\* user_machines: u1 has registered the machines m1 and m2, u2 none; a
\* machine's id is written as its name
NoMachine == "-"

UserMachines(u) == IF u = "u1" THEN {"m1", "m2"} ELSE {}

\* the lookup of the roast's machine name among the user's machines
MachineId(u, name) == IF name # NoMachine /\ name \in UserMachines(u) THEN name ELSE NoMachine

\* check_counter_tasks(machine_id) increments a task bound to task_machine:
\* the query's filter, then the loop's skip
Counted(task_machine, machine_id) ==
    /\ machine_id # NoMachine => task_machine \in {machine_id, NoMachine}
    /\ ~(task_machine # NoMachine /\ machine_id # NoMachine /\ task_machine # machine_id)

Incremented(value) == IF value + 1 >= CounterTrigger THEN 0 ELSE value + 1

\* Step 15.5 for a body that carries the machine name `name'
PostCounterOn(p, name) ==
    /\ proc[p].pc = "counter"
    /\ LET me == proc[p]
           machine_id == MachineId(me.user, name)
       IN  /\ counter' = IF Counted(NoMachine, machine_id) THEN Incremented(counter) ELSE counter
           /\ machine_task' =
                 IF machine_task.is_active /\ Counted(machine_task.machine_id, machine_id)
                   THEN [machine_task EXCEPT !.counter_current_value = Incremented(@)]
                   ELSE machine_task
           /\ made_on' = [made_on EXCEPT ![me.rid] = name]
           /\ proc' = [proc EXCEPT ![p] = AfterCounter(me)]
    /\ UNCHANGED <<stock, roasts, cache, recipe, batch, now, lock, histvars>>
    /\ UNCHANGED <<qcvars, profvars, schedvars, blendvars, getvars, fieldvars>>

\* Step 16: _save_idempotency_cache and commit; the key is the primary key.
PostSaveCache(p) ==
    /\ UNCHANGED auxvars
    /\ proc[p].pc = "savecache"
    /\ LET me == proc[p]
       IN  IF cache[me.key].ex
             THEN /\ proc' = [proc EXCEPT ![p] = Finish(me, 500, "error", NoRoast)]
                  /\ UNCHANGED <<cache, okKeys>>
             ELSE /\ cache' = [cache EXCEPT ![me.key] =
                                [ex |-> TRUE, data |-> me.resp.data, at |-> now]]
                  /\ proc' = [proc EXCEPT ![p] = Finish(me, me.code, me.resp.src, me.resp.data)]
                  /\ okKeys' = Succeeded(me.key, me.code)
    /\ UNCHANGED <<stock, roasts, recipe, counter, batch, now, lock,
                   base, added, nAdds, nPatches, nReq, pre, clean, restored, preBatch>>

\* ---------------------------------------------------------------- DELETE /roasts/{id}
\* The roast is read without a lock and without a user filter.
Delete(p, RS, cap) ==
    /\ UNCHANGED auxvars
    /\ proc[p].pc = "idle"
    /\ nReq < cap
    /\ nReq' = nReq + 1
    /\ \E rid \in RS :
         LET me == [IdleProc EXCEPT !.op = "delete", !.rid = rid]
             row == roasts[rid]
         IN  IF ~row.ex
               THEN proc' = [proc EXCEPT ![p] = Finish(me, 404, "error", NoRoast)]
               ELSE proc' = [proc EXCEPT ![p] =
                        [me EXCEPT !.pc = IF row.ded = <<>> THEN "dcommit" ELSE "restore",
                                   !.ded = row.ded, !.idx = 1, !.amount = row.green,
                                   !.batch_id = row.batch_id, !.roasted = row.roasted]]
    /\ UNCHANGED <<dbvars, now, lock, base, added, nAdds, nPatches, okKeys, pre, clean, restored,
                   preBatch>>

\* One recorded component per step: SELECT ... FOR UPDATE, then
\* stock_weight_kg += Decimal(str(deducted_weight_kg)).
DeleteRestore(p) ==
    /\ UNCHANGED auxvars
    /\ proc[p].pc = "restore"
    /\ LET me == proc[p]
           comp == me.ded[me.idx]
           c == comp[1]
           q == comp[2]
           have == IF c \in me.loaded THEN me.sess[c] ELSE stock[c]
           nextpc == IF me.idx = Len(me.ded) THEN "dcommit" ELSE "restore"
       IN  IF stock[c] = NoRow
             THEN /\ proc' = [proc EXCEPT ![p] = [me EXCEPT !.idx = me.idx + 1, !.pc = nextpc]]
                  /\ lock' = lock
             ELSE /\ lock[c] \in {Free, p}
                  /\ lock' = [lock EXCEPT ![c] = p]
                  /\ proc' = [proc EXCEPT ![p] =
                        [me EXCEPT !.idx = me.idx + 1, !.pc = nextpc,
                                   !.loaded = me.loaded \cup {c},
                                   !.dirty = me.dirty \cup {c},
                                   !.sess[c] = have + q]]
    /\ UNCHANGED <<dbvars, now, histvars>>

\* "Restore batch weight": the batch row is read under FOR UPDATE and
\* written at the commit
RestoredBatchUnclamped(me) ==
    IF me.batch_id = NoBatch THEN batch
    ELSE LET cur == RoundNumeric3(batch.cur + me.amount)
         IN  [cur |-> cur, tot |-> batch.tot - me.roasted,
              status |-> IF batch.status = "depleted" /\ cur > 0 THEN "active"
                         ELSE batch.status]

RestoredBatch(me) ==
    IF me.batch_id = NoBatch THEN batch
    ELSE LET cur == RoundNumeric3(batch.cur + me.amount)
             tot == IF batch.tot - me.roasted < 0 THEN 0 ELSE batch.tot - me.roasted
         IN  [cur |-> cur, tot |-> tot,
              status |-> IF batch.status = "depleted" /\ cur > 0 THEN "active"
                         ELSE batch.status]

\* db.delete(roast); commit.  A DELETE that matches no row is only warned about.
DeleteCommit(p) ==
    /\ UNCHANGED auxvars
    /\ proc[p].pc = "dcommit"
    /\ LET me == proc[p]
       IN  /\ stock' = Flushed(me)
           /\ batch' = RestoredBatch(me)
           /\ roasts' = [roasts EXCEPT ![me.rid] = NoRoast]
           /\ proc' = [proc EXCEPT ![p] = Finish(me, 204, "deleted", NoRoast)]
           /\ restored' = [restored EXCEPT ![me.rid] =
                             IF me.ded # <<>> THEN restored[me.rid] + 1 ELSE restored[me.rid]]
           /\ clean' = [r \in RoastIds |->
                          IF r = me.rid THEN FALSE ELSE clean[r] /\ Flushed(me) = stock]
    /\ lock' = Release(p)
    /\ UNCHANGED <<cache, recipe, counter, now, base, added, nAdds, nPatches, nReq, okKeys, pre,
                   preBatch>>

\* ---------------------------------------------------------------- other requests
AddWeights == {2 * Kg}

\* POST /coffees/{id}/add-stock: lock, float(stock) + weight_kg, commit
AddStock(c, w) ==
    /\ UNCHANGED auxvars
    /\ nAdds < MaxAdds
    /\ stock[c] # NoRow
    /\ lock[c] = Free
    /\ stock' = [stock EXCEPT ![c] = RoundNumeric3(stock[c] + w)]
    /\ added' = [added EXCEPT ![c] = added[c] + w]
    /\ nAdds' = nAdds + 1
    /\ clean' = [r \in RoastIds |-> FALSE]
    /\ UNCHANGED <<roasts, cache, recipe, counter, batch, now, lock, proc,
                   base, nPatches, nReq, okKeys, pre, restored, preBatch>>

\* PUT /blends/{id} with a recipe
UpdateBlend(b, r) ==
    /\ UNCHANGED auxvars
    /\ nPatches < MaxPatches
    /\ r # recipe[b]
    /\ \A i \in DOMAIN r : stock[r[i][1]] # NoRow
    /\ recipe' = [recipe EXCEPT ![b] = r]
    /\ nPatches' = nPatches + 1
    /\ UNCHANGED <<stock, roasts, cache, counter, batch, now, lock, proc,
                   base, added, nAdds, nReq, okKeys, pre, clean, restored, preBatch>>

PatchWeights == {1 * Kg}

\* PATCH /roasts/{id} with green_weight_kg
PatchRoast(rid, g) ==
    /\ UNCHANGED auxvars
    /\ nPatches < MaxPatches
    /\ roasts[rid].ex
    /\ roasts' = [roasts EXCEPT ![rid].green = RoundNumeric3(g), ![rid].mod = now]
    /\ nPatches' = nPatches + 1
    /\ UNCHANGED <<stock, cache, recipe, counter, batch, now, lock, proc,
                   base, added, nAdds, nReq, okKeys, pre, clean, restored, preBatch>>

\* patch_roast with a payload of label, notes and whole_color (quality control)
PatchRoastFields(rid, payload) ==
    /\ nPatches < MaxPatches
    /\ roasts[rid].ex
    /\ DOMAIN payload # {}
    /\ roasts' = [roasts EXCEPT ![rid].mod = now]
    /\ fields' = [fields EXCEPT ![rid] = PatchedFields(fields[rid], payload)]
    /\ nPatches' = nPatches + 1
    /\ UNCHANGED <<stock, cache, recipe, counter, batch, now, lock, proc,
                   base, added, nAdds, nReq, okKeys, pre, clean, restored, preBatch>>
    /\ UNCHANGED carried
    /\ UNCHANGED <<qcvars, profvars, schedvars, blendvars, getvars, machvars>>

\* A request dies before its next step (exception, lost connection): the
\* open transaction is rolled back and its locks are released.
Abort(p) ==
    /\ UNCHANGED auxvars
    /\ proc[p].pc \in {"lookup", "deduct", "commit", "counter", "savecache",
                       "restore", "dcommit"}
    /\ proc' = [proc EXCEPT ![p] = Finish(proc[p], 500, "abort", NoRoast)]
    /\ lock' = Release(p)
    /\ UNCHANGED <<dbvars, now, histvars>>

\* the response is sent and the session closed
Respond(p) ==
    /\ UNCHANGED auxvars
    /\ proc[p].pc = "done"
    /\ proc' = [proc EXCEPT ![p] = IdleProc]
    /\ UNCHANGED <<dbvars, now, lock, histvars>>

Tick ==
    /\ UNCHANGED auxvars
    /\ now < MaxTime
    /\ now' = now + 1
    /\ UNCHANGED <<dbvars, lock, proc, histvars>>

\* h hours pass
Sleep(h) ==
    /\ UNCHANGED auxvars
    /\ now + h <= MaxHours
    /\ now' = now + h
    /\ UNCHANGED <<dbvars, lock, proc, histvars>>

DeductWeights == {5 * Kg}

\* PUT /batches/{id}/deduct: lock, sufficiency check (400), deduct, depleted at 0
DeductBatch(w) ==
    /\ UNCHANGED auxvars
    /\ nPatches < MaxPatches
    /\ batch.cur >= w
    /\ batch' = [batch EXCEPT !.cur = batch.cur - w,
                              !.status = IF batch.cur - w = 0 THEN "depleted" ELSE batch.status]
    /\ nPatches' = nPatches + 1
    /\ clean' = [r \in RoastIds |-> FALSE]
    /\ UNCHANGED <<stock, roasts, cache, recipe, counter, now, lock, proc,
                   base, added, nAdds, nReq, okKeys, pre, restored, preBatch>>

\* PUT /batches/{id} with roasted_total_weight_kg
UpdateBatch(t) ==
    /\ UNCHANGED auxvars
    /\ nPatches < MaxPatches
    /\ t >= 0
    /\ batch' = [batch EXCEPT !.tot = t]
    /\ nPatches' = nPatches + 1
    /\ clean' = [r \in RoastIds |-> FALSE]
    /\ UNCHANGED <<stock, roasts, cache, recipe, counter, now, lock, proc,
                   base, added, nAdds, nReq, okKeys, pre, restored, preBatch>>

\* ---------------------------------------------------------------- quality goals
\* A measured value (degrees, seconds) is counted in units of 0.0000005, so
\* that half of a tolerance and the floor of 0.000001 are whole numbers.
Deg == 2000000
HalfToleranceFloor == 2

ParamNames == {"charge_temp", "drop_temp"}

\* the result of a goal check that has not run, and Python's None
Unchecked == [status |-> "pending", goals |-> <<>>]
NoneResult == [status |-> "none", goals |-> <<>>]

check_parameter_open(reference_value, actual_value, tolerance) ==
    LET half == IF tolerance \div 2 <= 0 THEN HalfToleranceFloor ELSE tolerance \div 2
    IN  IF actual_value = Absent THEN "yellow"
        ELSE IF reference_value = Absent THEN "yellow"
        ELSE IF reference_value - half < actual_value /\ actual_value < reference_value + half
             THEN "green"
        ELSE "red"

\* check_parameter: the status of one parameter
check_parameter(reference_value, actual_value, tolerance) ==
    LET half == IF tolerance \div 2 <= 0 THEN HalfToleranceFloor ELSE tolerance \div 2
    IN  IF actual_value = Absent THEN "yellow"
        ELSE IF reference_value = Absent THEN "yellow"
        ELSE IF reference_value - half <= actual_value /\ actual_value <= reference_value + half
             THEN "green"
        ELSE "red"

\* the check of the i-th parameter of a goal
ParamResult(goal, i) ==
    check_parameter(ref_values[goal.parameters[i].name],
                    actual_values[goal.parameters[i].name],
                    goal.parameters[i].tolerance)

UpdateGoalStatusLast(goal, result, goal_status) ==
    IF result = "red"
      THEN IF goal.failed_status = "warning" THEN "yellow" ELSE "red"
    ELSE IF result = "yellow"
      THEN IF goal.missing_value_status = "failed" THEN "red" ELSE "yellow"
    ELSE goal_status

\* the goal status after one more checked parameter
UpdateGoalStatus(goal, result, goal_status) ==
    IF result = "red"
      THEN IF goal.failed_status = "warning"
             THEN IF goal_status # "red" THEN "yellow" ELSE goal_status
             ELSE "red"
    ELSE IF result = "yellow" /\ goal_status # "red"
      THEN IF goal.missing_value_status = "failed" THEN "red" ELSE "yellow"
    ELSE goal_status

\* the loop over a goal's parameters, from the i-th on
RECURSIVE GoalStatus(_, _, _)
GoalStatus(goal, i, goal_status) ==
    IF i > Len(goal.parameters) THEN goal_status
    ELSE GoalStatus(goal, i + 1,
                    IF goal.parameters[i].enabled
                      THEN UpdateGoalStatus(goal, ParamResult(goal, i), goal_status)
                      ELSE goal_status)

\* checked_params: the result of every enabled parameter, by name
CheckedParams(goal) ==
    LET on == {i \in DOMAIN goal.parameters : goal.parameters[i].enabled}
    IN  [n \in {goal.parameters[i].name : i \in on} |->
            ParamResult(goal, CHOOSE i \in on : goal.parameters[i].name = n)]

\* goal_results: one entry per goal that checked something, from the i-th
\* goal on (a goal's id is its place in the query's result)
RECURSIVE GoalResults(_)
GoalResults(i) ==
    IF i > Len(goals) THEN <<>>
    ELSE IF DOMAIN CheckedParams(goals[i]) = {} THEN GoalResults(i + 1)
    ELSE <<[goal_id |-> i, status |-> GoalStatus(goals[i], 1, "green"),
            parameters |-> CheckedParams(goals[i])]>> \o GoalResults(i + 1)

\* the loop over the goal results, from the i-th on
RECURSIVE OverallStatus(_, _, _)
OverallStatus(results, i, overall_status) ==
    IF i > Len(results) THEN overall_status
    ELSE OverallStatus(results, i + 1,
                       IF results[i].status = "red" THEN "red"
                       ELSE IF results[i].status = "yellow" /\ overall_status = "green" THEN "yellow"
                       ELSE overall_status)

\* check_roast_against_goals
check_roast_against_goals ==
    IF goals = <<>> THEN NoneResult
    ELSE IF background = "none" THEN [status |-> "yellow", goals |-> <<>>]
    ELSE IF background = "unknown" THEN [status |-> "yellow", goals |-> <<>>]
    ELSE IF GoalResults(1) = <<>> THEN NoneResult
    ELSE [status |-> OverallStatus(GoalResults(1), 1, "green"), goals |-> GoalResults(1)]

\* GET /roasts, for one roast of the page: goals_status is set when the
\* check returned something
ListRoasts ==
    /\ goals_check = Unchecked
    /\ goals_check' = check_roast_against_goals
    /\ goals_status' = IF check_roast_against_goals = NoneResult THEN "absent"
                       ELSE check_roast_against_goals.status
    /\ UNCHANGED <<goals, background, ref_values, actual_values>>
    /\ UNCHANGED <<reqvars, profvars, schedvars, blendvars, getvars, machvars, fieldvars>>

\* ---------------------------------------------------------------- profiles
\* Times are whole seconds, temperatures whole degrees.  A dict is a function
\* whose domain is the set of its keys; sample indices count from 0 as in
\* the code, so sample i of a list is its element i + 1.
TP_SEARCH == 120

EmptyDict == [k \in {} |-> 0]

Put(d, k, v) == [x \in DOMAIN d \cup {k} |-> IF x = k THEN v ELSE d[x]]

PutIf(d, cond, k, v) == IF cond THEN Put(d, k, v) ELSE d

Min(a, b) == IF a <= b THEN a ELSE b

\* a profile document: the keys the computations read
Doc(tx, t1, t2, ti, c) == [timex |-> tx, temp1 |-> t1, temp2 |-> t2, timeindex |-> ti, computed |-> c]

NoDoc == Doc(<<>>, <<>>, <<>>, <<>>, EmptyDict)

\* stored profile content: absent, or bytes of some kind; a document's
\* bytes parse to doc
Content(kind, doc) == [kind |-> kind, doc |-> doc]

NoContent == Content("absent", NoDoc)

NoTelemetry == [timex |-> <<>>, temp1 |-> <<>>, temp2 |-> <<>>, timeindex |-> <<>>]

ScalarNames ==
    {"charge_temp", "TP_time", "TP_temp", "DRY_time", "DRY_temp", "FCs_time", "FCs_temp",
     "FCe_time", "FCe_temp", "drop_time", "drop_temp", "DEV_time"}

NoScalars == [f \in ScalarNames |-> Absent]

NoAnswer == [status |-> 0, tier |-> "-", computed |-> EmptyDict]

\* read_and_parse_alog followed by compute_computed_from_timeindex: a bad
\* archive or malformed JSON / literal raises what the tier catches; content
\* that parses to a list, a number, a string or null is returned as it is
\* and data.get then raises AttributeError, which no tier catches
ParseOutcome(kind) ==
    IF kind = "document" THEN "ok"
    ELSE IF kind \in {"corrupt_zip", "malformed"} THEN "caught"
    ELSE "raised"

charge_idx(data) ==
    IF data.timeindex[1] < 0 \/ data.timeindex[1] >= Len(data.timex) THEN 0
    ELSE data.timeindex[1]

charge_time_zero(data) == 0

charge_time(data) == data.timex[charge_idx(data) + 1]

\* safe_idx: Absent stands for None
safe_idx(data, slot) ==
    IF slot < 0 \/ slot >= Len(data.timeindex) THEN Absent
    ELSE IF data.timeindex[slot + 1] < 0 \/ data.timeindex[slot + 1] >= Len(data.timex) THEN Absent
    ELSE data.timeindex[slot + 1]

\* computed[key] = safe_time(slot) - charge_time, when there is a time and no value yet
SetTimeAlways(data, c, key, slot) ==
    IF safe_idx(data, slot) # Absent /\ safe_idx(data, slot) < Len(data.timex)
      THEN Put(c, key, data.timex[safe_idx(data, slot) + 1] - charge_time(data))
      ELSE c

SetTime(data, c, key, slot) ==
    IF safe_idx(data, slot) # Absent /\ safe_idx(data, slot) < Len(data.timex)
       /\ key \notin DOMAIN c
      THEN Put(c, key, data.timex[safe_idx(data, slot) + 1] - charge_time(data))
      ELSE c

\* set_if_missing(key, safe_temp(tarr, slot))
SetTemp(data, c, key, tarr, slot) ==
    IF safe_idx(data, slot) # Absent /\ safe_idx(data, slot) < Len(tarr)
       /\ key \notin DOMAIN c
      THEN Put(c, key, tarr[safe_idx(data, slot) + 1])
      ELSE c

\* the same for the ET list, which may be empty
SetET(data, c, key, slot) ==
    IF data.temp1 # <<>> THEN SetTemp(data, c, key, data.temp1, slot) ELSE c

\* the index of the least value of bt among samples i .. search_end - 1 and min_idx
\* the loop over range(i, search_end); min_idx is an index and never negative
RECURSIVE ScanMin(_, _, _, _)
ScanMin(bt, i, search_end, min_idx) ==
    IF i >= search_end \/ min_idx < 0 THEN min_idx
    ELSE ScanMin(bt, i + 1, search_end,
                 IF i < Len(bt) /\ bt[i + 1] < bt[min_idx + 1] THEN i ELSE min_idx)

\* the turning point found at sample min_idx
SetTP(tx, t1, t2, c, min_idx, t0) ==
    LET c1 == PutIf(c, "TP_time" \notin DOMAIN c, "TP_time", tx[min_idx + 1] - t0)
        c2 == PutIf(c1, "TP_BT" \notin DOMAIN c1, "TP_BT", t2[min_idx + 1])
    IN  PutIf(c2, t1 # <<>> /\ min_idx < Len(t1) /\ "TP_ET" \notin DOMAIN c2,
              "TP_ET", t1[Min(min_idx, Len(t1) - 1) + 1])

\* TP (turnaround): min BT in the samples after charge
TurningPoint(data, c) ==
    LET search_end == Min(charge_idx(data) + TP_SEARCH, Len(data.timex))
        min_idx == ScanMin(data.temp2, charge_idx(data) + 1, search_end, charge_idx(data))
    IN  IF "TP_time" \in DOMAIN c /\ "TP_BT" \in DOMAIN c THEN c
        ELSE IF search_end > charge_idx(data) /\ min_idx > charge_idx(data)
          THEN SetTP(data.timex, data.temp1, data.temp2, c, min_idx, charge_time(data))
        ELSE c

\* time, BT and ET of the event of a slot
Event(data, c, tkey, btkey, etkey, slot) ==
    SetET(data, SetTemp(data, SetTime(data, c, tkey, slot), btkey, data.temp2, slot), etkey, slot)

\* time and BT of the event of a slot
EventNoET(data, c, tkey, btkey, slot) ==
    SetTemp(data, SetTime(data, c, tkey, slot), btkey, data.temp2, slot)

\* Phases: dry = DRY, mid = FCs - DRY, finish = DROP - FCs, where the drop
\* time is DROP_time or, if that is missing or 0, totaltime
Phases(c) ==
    LET has_dry == "DRY_time" \in DOMAIN c
        has_fcs == "FCs_time" \in DOMAIN c
        drop_first == "DROP_time" \in DOMAIN c /\ c["DROP_time"] # 0
        has_drop == drop_first \/ "totaltime" \in DOMAIN c
        drop_t == IF drop_first THEN c["DROP_time"] ELSE c["totaltime"]
        c1 == PutIf(c, has_dry /\ "dryphasetime" \notin DOMAIN c, "dryphasetime", c["DRY_time"])
        c2 == PutIf(c1, has_fcs /\ has_dry /\ "midphasetime" \notin DOMAIN c1,
                    "midphasetime", c["FCs_time"] - c["DRY_time"])
    IN  PutIf(c2, has_drop /\ has_fcs /\ "finishphasetime" \notin DOMAIN c2,
              "finishphasetime", drop_t - c["FCs_time"])

\* the events in the order the code sets them
Events(data) ==
    LET c1 == SetET(data, SetTemp(data, data.computed, "CHARGE_BT", data.temp2, 0), "CHARGE_ET", 0)
        c2 == TurningPoint(data, c1)
        c3 == Event(data, c2, "DRY_time", "DRY_BT", "DRY_ET", 1)
        c4 == Event(data, c3, "FCs_time", "FCs_BT", "FCs_ET", 2)
        c5 == Event(data, c4, "FCe_time", "FCe_BT", "FCe_ET", 3)
        c6 == EventNoET(data, c5, "SCs_time", "SCs_BT", 4)
        c7 == EventNoET(data, c6, "SCe_time", "SCe_BT", 5)
        c8 == SetTime(data, SetTime(data, c7, "DROP_time", 6), "totaltime", 6)
    IN  SetET(data, SetTemp(data, c8, "DROP_BT", data.temp2, 6), "DROP_ET", 6)

compute_computed_from_timeindex(data) ==
    IF Len(data.timeindex) < 7 THEN data
    ELSE IF Len(data.timex) = 0 \/ Len(data.temp2) < Len(data.timex) THEN data
    ELSE [data EXCEPT !.computed = Phases(Events(data))]

\* compute_computed_from_telemetry_arrays: CHARGE, DROP and TP by scanning
compute_computed_from_telemetry_arrays(timex, temp1, temp2) ==
    IF Len(timex) < 2 \/ Len(temp2) < 2 THEN EmptyDict
    ELSE LET n == Min(Len(timex), Len(temp2))
             totaltime == timex[n] - timex[1]
             c1 == Put(Put(EmptyDict, "CHARGE_BT", temp2[1]), "DROP_BT", temp2[n])
             c2 == PutIf(PutIf(c1, totaltime >= 0, "DROP_time", totaltime),
                         totaltime >= 0, "totaltime", totaltime)
             c3 == PutIf(c2, temp1 # <<>>, "CHARGE_ET", temp1[1])
             c4 == PutIf(c3, temp1 # <<>> /\ n <= Len(temp1), "DROP_ET", temp1[Min(n, Len(temp1))])
             search_end == Min(TP_SEARCH, n - 1)
             min_idx == ScanMin(temp2, 1, search_end, 0)
         IN  IF search_end > 1 /\ min_idx > 0
               THEN SetTP(timex, temp1, temp2, c4, min_idx, timex[1])
               ELSE c4

\* the keys of a dict that come from the scalar columns which are not None
FromColumns(sc, keys) ==
    LET col == [k \in DOMAIN keys |-> sc[keys[k]]]
    IN  [k \in {x \in DOMAIN keys : col[x] # Absent} |-> col[k]]

EventColumns ==
    [CHARGE_BT |-> "charge_temp", TP_time |-> "TP_time", TP_BT |-> "TP_temp",
     DRY_time |-> "DRY_time", DRY_BT |-> "DRY_temp", FCs_time |-> "FCs_time",
     FCs_BT |-> "FCs_temp", FCe_time |-> "FCe_time", FCe_BT |-> "FCe_temp",
     DROP_time |-> "drop_time", DROP_BT |-> "drop_temp", totaltime |-> "drop_time"]

\* the keys of a that b lacks are added to b
Supplement(b, a) ==
    [k \in DOMAIN a \cup DOMAIN b |-> IF k \in DOMAIN b THEN b[k] ELSE a[k]]

\* from_roast: what the scalar columns give (priority 2)
from_roast(sc) ==
    LET c0 == FromColumns(sc, EventColumns)
        both == sc["DRY_time"] # Absent /\ sc["FCs_time"] # Absent
        c1 == PutIf(c0, both, "dryphasetime", sc["DRY_time"])
        c2 == PutIf(c1, both, "midphasetime", sc["FCs_time"] - sc["DRY_time"])
    IN  IF sc["drop_time"] # Absent /\ sc["FCs_time"] # Absent
          THEN Put(c2, "finishphasetime", sc["drop_time"] - sc["FCs_time"])
          ELSE PutIf(c2, sc["DEV_time"] # Absent, "finishphasetime", sc["DEV_time"])

\* the minimal profile built from the roast record (priority 3)
minimal_computed(sc) ==
    LET c0 == FromColumns(sc, EventColumns)
        c1 == PutIf(c0, sc["DRY_time"] # Absent, "dryphasetime", sc["DRY_time"])
        c2 == PutIf(c1, sc["DRY_time"] # Absent /\ sc["FCs_time"] # Absent,
                    "midphasetime", sc["FCs_time"] - sc["DRY_time"])
    IN  IF sc["DEV_time"] # Absent
          THEN Put(c2, "finishphasetime", sc["DEV_time"])
          ELSE PutIf(c2, sc["drop_time"] # Absent /\ sc["FCs_time"] # Absent,
                     "finishphasetime", sc["drop_time"] - sc["FCs_time"])

Answer(tier, c) == [status |-> 200, tier |-> tier, computed |-> c]

\* an exception no handler catches
ServerError == [status |-> 500, tier |-> "-", computed |-> EmptyDict]

\* priority 2: the telemetry columns, by the event indices when there are
\* at least 7 of them and by scanning otherwise, supplemented from the scalars
FromTelemetry ==
    LET indexed == Len(telemetry.timeindex) >= 7
        data == Doc(telemetry.timex, telemetry.temp1, telemetry.temp2, telemetry.timeindex, EmptyDict)
        computed == IF indexed THEN compute_computed_from_timeindex(data).computed
                    ELSE compute_computed_from_telemetry_arrays(telemetry.timex, telemetry.temp1,
                                                                telemetry.temp2)
    IN  Answer(IF indexed THEN "index" ELSE "scan", Supplement(computed, from_roast(scalars)))

\* priorities 2 and 3
FromRoastRecord ==
    IF telemetry.timex # <<>> \/ telemetry.temp1 # <<>> \/ telemetry.temp2 # <<>>
      THEN FromTelemetry
      ELSE Answer("scalars", minimal_computed(scalars))

\* priority 1, then the rest
FromFile ==
    IF alog_file.kind # "absent" /\ ParseOutcome(alog_file.kind) = "ok"
      THEN Answer("file", compute_computed_from_timeindex(alog_file.doc).computed)
    ELSE IF alog_file.kind # "absent" /\ ParseOutcome(alog_file.kind) = "raised"
      THEN ServerError
    ELSE FromRoastRecord

get_profile_data_file_first ==
    IF alog_file.kind # "absent" /\ ParseOutcome(alog_file.kind) = "ok"
      THEN Answer("file", compute_computed_from_timeindex(alog_file.doc).computed)
    ELSE IF blob.kind # "absent" /\ ParseOutcome(blob.kind) = "ok"
      THEN Answer("blob", compute_computed_from_timeindex(blob.doc).computed)
    ELSE FromRoastRecord

\* get_profile_data: priority 0 is the blob
get_profile_data ==
    IF blob.kind # "absent" /\ ParseOutcome(blob.kind) = "ok"
      THEN Answer("blob", compute_computed_from_timeindex(blob.doc).computed)
    ELSE IF blob.kind # "absent" /\ ParseOutcome(blob.kind) = "raised"
      THEN ServerError
    ELSE FromFile

\* GET /roasts/{id}/profile/data for the roast
GetProfileData ==
    /\ profile_data = NoAnswer
    /\ profile_data' = get_profile_data
    /\ UNCHANGED <<blob, alog_file, telemetry, scalars>>
    /\ UNCHANGED <<reqvars, qcvars, schedvars, blendvars, getvars, machvars, fieldvars>>

\* ---------------------------------------------------------------- production tasks
\* The clock now counts hours of UTC from a Monday 00:00; one hour stands
\* for one minute-granular slot of the schedule check.
DayHours == 24
WeekDays == 7
MoscowOffset == 3

TimeZones == {"unset", "UTC", "Europe/Moscow"}

\* LOCAL_TZ: the zone named by TZ, Europe/Moscow when TZ is unset
LocalOffset(z) == IF z = "UTC" THEN 0 ELSE MoscowOffset

\* the zone of the process, UTC when TZ is unset: the database driver reads
\* a naive datetime written to a timestamptz column as a time of this zone
SystemOffset(z) == IF z = "Europe/Moscow" THEN MoscowOffset ELSE 0

\* _local_now(): the naive local time
local_now == now + LocalOffset(tz)

weekday(t) == (t \div DayHours) % WeekDays

time_of_day(t) == t % DayHours

\* a naive datetime stored in a timestamptz column and read back: the
\* driver returns the instant in UTC and the check strips the zone
AsStored(naive) == naive - SystemOffset(tz)

\* check_scheduled_tasks, one run; trigger_task_notification adds the
\* history entry, stamps the task and commits, then notifies (a failed
\* send is only logged)
CheckScheduledTasks ==
    /\ nChecks < MaxChecks
    /\ nChecks' = nChecks + 1
    /\ LET today_start == local_now - time_of_day(local_now)
           lta == task.last_triggered_at
           due == /\ task.is_active
                  /\ task.schedule_day_of_week = weekday(local_now)
                  /\ task.schedule_time = time_of_day(local_now)
       IN  IF due /\ ~(lta # Absent /\ lta >= today_start)
             THEN /\ history' = Append(history, local_now)
                  /\ task' = [task EXCEPT !.last_triggered_at = AsStored(local_now)]
                  /\ \E sent \in BOOLEAN :
                        notifications' = IF sent THEN notifications + 1 ELSE notifications
             ELSE UNCHANGED <<history, task, notifications>>
    /\ UNCHANGED <<tz, one_time, reqvars, qcvars, profvars, blendvars, getvars, machvars, fieldvars>>

\* a time of day is kept in seconds of the clock's step; the checks run at
\* the start of a step, as the scheduler's jobs run at second 0
StepSeconds == 60

NoOneTime ==
    [is_active |-> FALSE, scheduled_date |-> 0, scheduled_time |-> Absent,
     repeat_after_days |-> Absent, last_triggered_at |-> Absent]

\* time.replace(second=0, microsecond=0)
without_seconds(t) == t - (t % StepSeconds)

\* check_one_time_tasks, one run
CheckOneTimeTasks ==
    /\ nChecks < MaxChecks
    /\ nChecks' = nChecks + 1
    /\ LET current_date == local_now \div DayHours
           current_time == time_of_day(local_now) * StepSeconds
           today_start == current_date * DayHours
           lta == one_time.last_triggered_at
           selected == one_time.is_active /\ one_time.scheduled_date <= current_date
           not_yet == /\ one_time.scheduled_time # Absent
                      /\ one_time.scheduled_date = current_date
                      /\ without_seconds(one_time.scheduled_time) > current_time
           already == lta # Absent /\ lta >= today_start
       IN  IF selected /\ ~not_yet /\ ~already
             THEN /\ history' = Append(history, [at |-> local_now,
                                                 date |-> one_time.scheduled_date,
                                                 time |-> one_time.scheduled_time])
                  /\ \E sent \in BOOLEAN :
                        notifications' = IF sent THEN notifications + 1 ELSE notifications
                  /\ one_time' =
                        IF one_time.repeat_after_days # Absent /\ one_time.repeat_after_days # 0
                          THEN [one_time EXCEPT
                                  !.scheduled_date = current_date + one_time.repeat_after_days,
                                  !.last_triggered_at = Absent]
                          ELSE [one_time EXCEPT !.is_active = FALSE,
                                                !.last_triggered_at = AsStored(local_now)]
             ELSE UNCHANGED <<history, one_time, notifications>>
    /\ UNCHANGED <<tz, task, reqvars, qcvars, profvars, blendvars, getvars, machvars, fieldvars>>

\* an hour passes
AdvanceClock ==
    /\ now < MaxClock
    /\ now' = now + 1
    /\ UNCHANGED <<dbvars, lock, proc, histvars, auxvars>>

\* ---------------------------------------------------------------- GET /roasts/{id}
NoGet == [rid |-> "-", cm |-> Absent, ex |-> FALSE, mod |-> 0, status |-> 0]

\* _enrich_roast_from_profile: "raised" when parsing the stored profile ends
\* in an exception that the function does not catch
enrich_roast_from_profile ==
    IF has_details THEN "ok"
    ELSE IF blob.kind # "absent" /\ ParseOutcome(blob.kind) # "caught"
      THEN ParseOutcome(blob.kind)
    ELSE IF alog_file.kind # "absent" /\ ParseOutcome(alog_file.kind) = "raised"
      THEN "raised"
    ELSE "ok"

\* get_roast: the status of the answer; cm is the modified_at query parameter
get_roast(rid, cm) ==
    IF rid \notin RoastIds THEN 400
    ELSE IF ~roasts[rid].ex THEN 404
    ELSE IF cm # Absent /\ roasts[rid].mod <= cm THEN 204
    ELSE IF enrich_roast_from_profile = "raised" THEN 500
    ELSE 200

GetRoast(rid, cm) ==
    /\ fetched' = [rid |-> rid, cm |-> cm,
               ex |-> rid \in RoastIds /\ roasts[rid].ex,
               mod |-> IF rid \in RoastIds THEN roasts[rid].mod ELSE 0,
               status |-> get_roast(rid, cm)]
    /\ UNCHANGED has_details
    /\ UNCHANGED <<reqvars, qcvars, profvars, schedvars, blendvars, machvars, fieldvars>>

\* ---------------------------------------------------------------- blends
BlendRows == {"b1", "b2"}

\* a blends row: recipe is a JSONB column declared NOT NULL; the ORM writes
\* Python's None to a JSON column as the JSON value null (none_as_null is
\* not set), which is not SQL NULL and passes the constraint
NoBlendRow == [ex |-> FALSE, user |-> "none", json_null |-> FALSE, recipe |-> <<>>]

StoredBlend(u, r) == [ex |-> TRUE, user |-> u, json_null |-> FALSE, recipe |-> r]

RECURSIVE PercentageSum(_)
PercentageSum(r) == IF r = <<>> THEN 0 ELSE r[1][2] + PercentageSum(Tail(r))

\* RecipeComponent: percentage is an integer of 1..100
RecipeComponent(c) == c[2] >= 1 /\ c[2] <= 100

\* _validate_recipe: TRUE when no ValueError is raised
validate_recipe(r) ==
    /\ ~(Len(r) < 2)
    /\ Cardinality({r[i][1] : i \in DOMAIN r}) = Len(r)
    /\ ~(PercentageSum(r) # 100)

\* BlendCreate: recipe is required and is a list
BlendCreate(body) ==
    /\ body.has_recipe
    /\ ~body.is_null
    /\ \A i \in DOMAIN body.recipe : RecipeComponent(body.recipe[i])
    /\ Len(body.recipe) >= 2
    /\ validate_recipe(body.recipe)

\* BlendUpdate: recipe is optional and is validated when it is not None
BlendUpdate(body) ==
    (body.has_recipe /\ ~body.is_null) =>
        /\ \A i \in DOMAIN body.recipe : RecipeComponent(body.recipe[i])
        /\ validate_recipe(body.recipe)

CoffeesFound(r) == \A i \in DOMAIN r : stock[r[i][1]] # NoRow

\* POST /blends
create_blend(u, b, body) ==
    /\ nBlendOps < MaxBlendOps
    /\ ~blends[b].ex
    /\ nBlendOps' = nBlendOps + 1
    /\ IF ~BlendCreate(body)
       THEN blend_status' = 422 /\ UNCHANGED blends
       ELSE IF ~CoffeesFound(body.recipe)
       THEN blend_status' = 400 /\ UNCHANGED blends
       ELSE /\ blends' = [blends EXCEPT ![b] = StoredBlend(u, body.recipe)]
            /\ blend_status' = 201
    /\ UNCHANGED <<reqvars, qcvars, profvars, schedvars, getvars, machvars, fieldvars>>

\* PUT /blends/{id}
update_blend(u, b, body) ==
    /\ nBlendOps < MaxBlendOps
    /\ nBlendOps' = nBlendOps + 1
    /\ IF ~BlendUpdate(body)
       THEN blend_status' = 422 /\ UNCHANGED blends
       ELSE IF ~blends[b].ex
       THEN blend_status' = 404 /\ UNCHANGED blends
       ELSE IF blends[b].user # u
       THEN blend_status' = 403 /\ UNCHANGED blends
       ELSE IF body.has_recipe /\ ~body.is_null
       THEN IF ~CoffeesFound(body.recipe)
            THEN blend_status' = 400 /\ UNCHANGED blends
            ELSE /\ blends' = [blends EXCEPT ![b].recipe = body.recipe,
                                             ![b].json_null = FALSE]
                 /\ blend_status' = 200
       ELSE IF body.has_recipe
       \* setattr(blend, "recipe", None), commit; the answer then iterates None
       THEN /\ blends' = [blends EXCEPT ![b].recipe = <<>>, ![b].json_null = TRUE]
            /\ blend_status' = 500
       ELSE /\ blend_status' = IF blends[b].json_null THEN 500 ELSE 200
            /\ UNCHANGED blends
    /\ UNCHANGED <<reqvars, qcvars, profvars, schedvars, getvars, machvars, fieldvars>>

\* ---------------------------------------------------------------- specifications
InitStock == [c \in Coffees |-> IF c = "A" THEN 1 * Kg ELSE IF c = "B" THEN 10 * Kg ELSE NoRow]

\* Batch(current_weight_kg=initial_weight_kg, roasted_total_weight_kg=0, status="active")
InitBatch == [cur |-> BatchInitial, tot |-> 0, status |-> "active"]

InitRequests ==
    /\ stock = InitStock
    /\ roasts = [r \in RoastIds |-> NoRoast]
    /\ cache = [k \in Keys |-> NoEntry]
    /\ recipe = [b \in BlendIds |-> <<<<"A", 60>>, <<"B", 40>>>>]
    /\ counter = 0
    /\ batch = InitBatch
    /\ now = 0
    /\ lock = [c \in Coffees |-> Free]
    /\ proc = [p \in Procs |-> IdleProc]
    /\ base = InitStock
    /\ added = [c \in Coffees |-> 0]
    /\ nAdds = 0
    /\ nPatches = 0
    /\ nReq = 0
    /\ okKeys = {}
    /\ pre = [r \in RoastIds |-> InitStock]
    /\ clean = [r \in RoastIds |-> FALSE]
    /\ restored = [r \in RoastIds |-> 0]
    /\ preBatch = [r \in RoastIds |-> InitBatch]

\* no goal is defined and nothing has been listed
InitNoGoals ==
    /\ goals = <<>>
    /\ background = "none"
    /\ ref_values = [n \in ParamNames |-> Absent]
    /\ actual_values = [n \in ParamNames |-> Absent]
    /\ goals_check = Unchecked
    /\ goals_status = "absent"

\* the roast has no profile and none has been asked for
InitNoProfile ==
    /\ blob = NoContent
    /\ alog_file = NoContent
    /\ telemetry = NoTelemetry
    /\ scalars = NoScalars
    /\ profile_data = NoAnswer

\* no schedule-type task is active
InitNoTask ==
    /\ tz = "unset"
    /\ task = [is_active |-> FALSE, schedule_day_of_week |-> 0, schedule_time |-> 0,
               last_triggered_at |-> Absent]
    /\ one_time = NoOneTime
    /\ history = <<>>
    /\ notifications = 0
    /\ nChecks = 0

\* one blend is stored and no blend request has been made
InitNoBlend ==
    /\ blends = [b \in BlendRows |-> IF b = "b1" THEN StoredBlend("u1", <<<<"A", 60>>, <<"B", 40>>>>)
                                                 ELSE NoBlendRow]
    /\ blend_status = 0
    /\ nBlendOps = 0

\* no roast row carries a label, notes or a colour
InitNoFields ==
    /\ fields = [r \in RoastIds |-> NoFields]
    /\ carried = [p \in Procs |-> NoBody]

\* no counter task is bound to a machine
InitNoMachine ==
    /\ machine_task = [is_active |-> FALSE, machine_id |-> NoMachine, counter_current_value |-> 0]
    /\ made_on = [r \in RoastIds |-> NoMachine]

\* the roast row is complete and has not been read
InitNoGet ==
    /\ has_details = TRUE
    /\ fetched = NoGet

Init ==
    /\ InitRequests
    /\ InitNoGoals
    /\ InitNoProfile
    /\ InitNoTask
    /\ InitNoBlend
    /\ InitNoMachine
    /\ InitNoFields
    /\ InitNoGet

\* ---- the ledger, one request at a time
LedgerPayloads ==
    { Payload(25 * (Kg \div 10), "B", NoBlend, <<>>),
      Payload(25 * (Kg \div 10), "A", NoBlend, <<>>),
      Payload(50, "B", NoBlend, <<>>),
      Payload(25 * (Kg \div 10), "P", NoBlend, <<>>),
      Payload(5 * Kg, NoCoffee, "b1", <<>>),
      Payload(5 * Kg, NoCoffee, NoBlend, <<<<"A", 60>>, <<"B", 40>>>>),
      Payload(Gram, NoCoffee, NoBlend, <<<<"A", 50>>, <<"B", 50>>>>) }

LedgerClients == Clients({"u1"}, {"r1"}, LedgerPayloads, {Absent}, {TRUE})

NextLedger ==
    \/ Post("p1", {NoKey}, MaxSeqReqs)
    \/ PostLookup("p1", LedgerClients)
    \/ PostDeduct("p1")
    \/ PostCommit("p1")
    \/ PostCounter("p1")
    \/ Delete("p1", {"r1"}, MaxSeqReqs)
    \/ DeleteRestore("p1")
    \/ DeleteCommit("p1")
    \/ Abort("p1")
    \/ Respond("p1")
    \/ (Quiet /\ \E c \in Coffees, w \in AddWeights : AddStock(c, w))
    \/ (Quiet /\ \E b \in BlendIds, r \in Recipes : UpdateBlend(b, r))
    \/ (Quiet /\ \E rid \in RoastIds, g \in PatchWeights : PatchRoast(rid, g))

SpecLedger == Init /\ [][NextLedger]_vars

\* ---- idempotency and conflicts, one request at a time
IdemPayloads ==
    { Payload(25 * (Kg \div 10), "B", NoBlend, <<>>),
      Payload(Absent, NoCoffee, NoBlend, <<>>) }

IdemClients == Clients(Users, RoastIds, IdemPayloads, ClientMods, BOOLEAN)

NextIdem ==
    \/ Post("p1", Keys \cup {NoKey}, MaxSeqReqs)
    \/ PostLookup("p1", IdemClients)
    \/ PostDeduct("p1")
    \/ PostCommit("p1")
    \/ PostCounter("p1")
    \/ PostSaveCache("p1")
    \/ Delete("p1", RoastIds, MaxSeqReqs)
    \/ DeleteRestore("p1")
    \/ DeleteCommit("p1")
    \/ Respond("p1")
    \/ (Quiet /\ Tick)

SpecIdem == Init /\ [][NextIdem]_vars

\* ---- concurrent creations
RacePayloads ==
    { Payload(25 * (Kg \div 10), "B", NoBlend, <<>>),
      Payload(8 * Kg, "B", NoBlend, <<>>),
      Payload(5 * Kg, NoCoffee, "b1", <<>>),
      Payload(5 * Kg, NoCoffee, NoBlend, <<<<"B", 40>>, <<"A", 60>>>>) }

RaceClients == Clients({"u1"}, RoastIds, RacePayloads, {Absent}, {TRUE})

NextRace ==
    \E p \in Procs :
        \/ Post(p, {NoKey}, MaxConcReqs)
        \/ PostLookup(p, RaceClients)
        \/ PostDeduct(p)
        \/ PostCommit(p)
        \/ PostCounter(p)
        \/ Abort(p)
        \/ Respond(p)

SpecRace == Init /\ [][NextRace]_vars

\* ---- concurrent deletions of a roast
DelRaceClients ==
    Clients({"u1"}, {"r1"}, {Payload(25 * (Kg \div 10), "B", NoBlend, <<>>)}, {Absent}, {TRUE})

NextDelRace ==
    \/ Post("p1", {NoKey}, MaxRaceReqs)
    \/ PostLookup("p1", DelRaceClients)
    \/ PostDeduct("p1")
    \/ PostCommit("p1")
    \/ PostCounter("p1")
    \/ \E p \in Procs :
        \/ Delete(p, {"r1"}, MaxRaceReqs)
        \/ DeleteRestore(p)
        \/ DeleteCommit(p)
        \/ Respond(p)

SpecDelRace == Init /\ [][NextDelRace]_vars

\* ---- concurrent creations, deletions and add-stock
ConcPayloads ==
    { Payload(8 * Kg, "B", NoBlend, <<>>),
      Payload(25 * (Kg \div 10), "A", NoBlend, <<>>),
      Payload(5 * Kg, NoCoffee, "b1", <<>>),
      Payload(5 * Kg, NoCoffee, NoBlend, <<<<"B", 40>>, <<"A", 60>>>>) }

ConcClients == Clients({"u1"}, RoastIds, ConcPayloads, {Absent}, {TRUE})

NextConc ==
    \/ \E p \in Procs :
        \/ Post(p, {NoKey}, MaxConcReqs)
        \/ PostLookup(p, ConcClients)
        \/ PostDeduct(p)
        \/ PostCommit(p)
        \/ PostCounter(p)
        \/ Delete(p, RoastIds, MaxConcReqs)
        \/ DeleteRestore(p)
        \/ DeleteCommit(p)
        \/ Abort(p)
        \/ Respond(p)
    \/ \E c \in Coffees, w \in AddWeights : AddStock(c, w)

SpecConc == Init /\ [][NextConc]_vars

\* ---- concurrent and repeated POSTs of one roast, with and without a key
KeyRaceClients ==
    Clients({"u1"}, {"r1"},
            { Payload(25 * (Kg \div 10), "B", NoBlend, <<>>),
              Payload(5 * Kg, NoCoffee, "b1", <<>>) },
            {Absent}, BOOLEAN)

NextKeyRace ==
    \E p \in Procs :
        \/ Post(p, Keys \cup {NoKey}, MaxRaceReqs)
        \/ PostLookup(p, KeyRaceClients)
        \/ PostDeduct(p)
        \/ PostCommit(p)
        \/ PostCounter(p)
        \/ PostSaveCache(p)
        \/ Respond(p)

SpecKeyRace == Init /\ [][NextKeyRace]_vars

\* ---- keyed creations that may die at any step, and their retries
RetryClients ==
    Clients({"u1"}, {"r1"},
            { Payload(25 * (Kg \div 10), "B", NoBlend, <<>>),
              Payload(5 * Kg, NoCoffee, "b1", <<>>) },
            {Absent, 0}, BOOLEAN)

NextRetry ==
    \/ Post("p1", Keys, MaxSeqReqs)
    \/ PostLookup("p1", RetryClients)
    \/ PostDeduct("p1")
    \/ PostCommit("p1")
    \/ PostCounter("p1")
    \/ PostSaveCache("p1")
    \/ Abort("p1")
    \/ Respond("p1")
    \/ (Quiet /\ Tick)

SpecRetry == Init /\ [][NextRetry]_vars

\* ---- keyed requests over more than a day
ExpiryClients ==
    Clients({"u1"}, {"r1"}, {Payload(25 * (Kg \div 10), "B", NoBlend, <<>>)}, {Absent}, {TRUE})

NextExpiry ==
    \/ Post("p1", Keys, MaxSeqReqs)
    \/ PostLookup("p1", ExpiryClients)
    \/ PostDeduct("p1")
    \/ PostCommit("p1")
    \/ PostCounter("p1")
    \/ PostSaveCache("p1")
    \/ Respond("p1")
    \/ (Quiet /\ \E h \in {1, IDEMPOTENCY_TTL_HOURS + 1} : Sleep(h))

SpecExpiry == Init /\ [][NextExpiry]_vars

\* ---- updates of a stored roast through the upsert endpoint
PartialClients ==
    [Clients({"u1"}, {"r1"}, {Payload(25 * (Kg \div 10), "B", NoBlend, <<>>)},
             ClientMods, BOOLEAN)
        EXCEPT !.idfields = {"roast_id", "id"}, !.ends = {Absent, 2 * Kg}]

NextPartial ==
    \/ Post("p1", Keys \cup {NoKey}, MaxSeqReqs)
    \/ PostLookup("p1", PartialClients)
    \/ PostDeduct("p1")
    \/ PostCommit("p1")
    \/ PostCounter("p1")
    \/ PostSaveCache("p1")
    \/ Respond("p1")
    \/ (Quiet /\ Tick)
    \/ (Quiet /\ \E rid \in RoastIds, g \in PatchWeights : PatchRoast(rid, g))

SpecPartial == Init /\ [][NextPartial]_vars

\* ---- roasts linked to the production batch
BatchClients ==
    [Clients({"u1"}, {"r1"}, {Payload(25 * (Kg \div 10), "B", NoBlend, <<>>)},
             {Absent}, {TRUE})
        EXCEPT !.batches = {"bt1", NoBatch}, !.ends = {Absent, 2 * Kg}]

NextBatch ==
    \/ Post("p1", {NoKey}, MaxSeqReqs)
    \/ PostLookup("p1", BatchClients)
    \/ PostDeduct("p1")
    \/ PostCommit("p1")
    \/ PostCounter("p1")
    \/ Delete("p1", {"r1"}, MaxSeqReqs)
    \/ DeleteRestore("p1")
    \/ DeleteCommit("p1")
    \/ Respond("p1")
    \/ (Quiet /\ \E w \in DeductWeights : DeductBatch(w))

SpecBatch == Init /\ [][NextBatch]_vars

\* ---- payloads that name an ingredient and a blend
PolicyPayloads ==
    { Payload(25 * (Kg \div 10), "A", "b1", <<>>),
      Payload(25 * (Kg \div 10), "B", "b1", <<>>),
      Payload(5 * Kg, "A", NoBlend, <<<<"A", 60>>, <<"B", 40>>>>),
      Payload(5 * Kg, "B", NoBlend, <<<<"A", 60>>, <<"B", 40>>>>),
      Payload(5 * Kg, NoCoffee, "b1", <<>>),
      Payload(5 * Kg, NoCoffee, NoBlend, <<<<"A", 60>>, <<"B", 40>>>>) }

PolicyClients == Clients({"u1"}, RoastIds, PolicyPayloads, {Absent}, {TRUE})

NextPolicy ==
    \/ Post("p1", {NoKey}, MaxSeqReqs)
    \/ PostLookup("p1", PolicyClients)
    \/ PostDeduct("p1")
    \/ PostCommit("p1")
    \/ PostCounter("p1")
    \/ Delete("p1", RoastIds, MaxSeqReqs)
    \/ DeleteRestore("p1")
    \/ DeleteCommit("p1")
    \/ Respond("p1")

SpecPolicy == Init /\ [][NextPolicy]_vars

\* ---- well-formed and malformed bodies
ParseClients ==
    [Clients({"u1"}, {"r1"}, {Payload(25 * (Kg \div 10), "P", NoBlend, <<>>)}, {Absent}, {TRUE})
        EXCEPT !.bodies = BodyKinds]

NextParse ==
    \/ Post("p1", Keys \cup {NoKey}, MaxSeqReqs)
    \/ PostLookup("p1", ParseClients)
    \/ PostDeduct("p1")
    \/ PostCommit("p1")
    \/ PostCounter("p1")
    \/ PostSaveCache("p1")
    \/ Delete("p1", {"r1"}, MaxSeqReqs)
    \/ DeleteRestore("p1")
    \/ DeleteCommit("p1")
    \/ Respond("p1")

SpecParse == Init /\ [][NextParse]_vars

\* ---- goal evaluation
SeqsUpTo(S, n) == UNION {[1 .. k -> S] : k \in 0 .. n}

ParamConfig(n, e, t) == [name |-> n, enabled |-> e, tolerance |-> t]

\* the parameter maps of the goals: both orders, a disabled parameter,
\* nothing enabled, a zero tolerance
GoalParameters ==
    { <<ParamConfig("charge_temp", TRUE, 2 * Deg), ParamConfig("drop_temp", TRUE, 4 * Deg)>>,
      <<ParamConfig("drop_temp", TRUE, 4 * Deg), ParamConfig("charge_temp", TRUE, 2 * Deg)>>,
      <<ParamConfig("charge_temp", FALSE, 2 * Deg), ParamConfig("drop_temp", TRUE, 0)>>,
      <<ParamConfig("charge_temp", FALSE, 2 * Deg), ParamConfig("drop_temp", FALSE, 4 * Deg)>> }

Goals ==
    [parameters : GoalParameters, failed_status : {"failed", "warning"},
     missing_value_status : {"failed", "warning"}]

\* values on, next to and away from the bounds of the tolerance band
ChargeActuals == {Absent, 199 * Deg - 1, 199 * Deg, 200 * Deg, 201 * Deg, 201 * Deg + 1}
DropActuals == {Absent, 200 * Deg, 200 * Deg + 3, 202 * Deg + 1}

InitGoals ==
    /\ InitRequests
    /\ goals \in SeqsUpTo(Goals, MaxGoals)
    /\ background \in {"none", "unknown", "reference"}
    /\ ref_values \in {[n \in ParamNames |-> IF n = "charge_temp" THEN c ELSE 200 * Deg] :
                           c \in {Absent, 200 * Deg}}
    /\ actual_values \in {[n \in ParamNames |-> IF n = "charge_temp" THEN c ELSE d] :
                              c \in ChargeActuals, d \in DropActuals}
    /\ goals_check = Unchecked
    /\ goals_status = "absent"
    /\ InitNoProfile
    /\ InitNoTask
    /\ InitNoBlend
    /\ InitNoMachine
    /\ InitNoFields
    /\ InitNoGet

NextGoals ==
    \/ ListRoasts

SpecGoals == InitGoals /\ [][NextGoals]_vars

\* ---- profile resolution
\* a curve of MaxSamples samples: charge at 10 s, the lowest BT at sample 1
SampleTimex == [i \in 1 .. MaxSamples |-> 10 + 60 * (i - 1)]
SampleTemp2 == [i \in 1 .. MaxSamples |-> IF i = 1 THEN 200 ELSE 140 + 10 * i]

\* an 8-slot timeindex: CHARGE, DRY END, FC START, DROP and the rest unset
TimeIndex(c, d, f, x) == <<c, d, f, -1, -1, -1, x, 0>>

ContentKinds == {"absent", "corrupt_zip", "malformed", "not_document", "document"}

Contents(doc) == {Content(k, IF k = "document" THEN doc ELSE NoDoc) : k \in ContentKinds}

Telemetries ==
    {NoTelemetry} \cup
    { [timex |-> SampleTimex, temp1 |-> <<>>, temp2 |-> SampleTemp2, timeindex |-> ti] :
        ti \in {TimeIndex(0, 1, 2, 3), <<0, 1, 2>>, <<>>} }

FullScalars ==
    [f \in ScalarNames |->
        IF f = "charge_temp" THEN 205 ELSE IF f = "TP_time" THEN 70 ELSE IF f = "TP_temp" THEN 95
        ELSE IF f = "DRY_time" THEN 240 ELSE IF f = "DRY_temp" THEN 160
        ELSE IF f = "FCs_time" THEN 480 ELSE IF f = "FCs_temp" THEN 196
        ELSE IF f = "FCe_time" THEN 540 ELSE IF f = "FCe_temp" THEN 204
        ELSE IF f = "drop_time" THEN 600 ELSE IF f = "drop_temp" THEN 210 ELSE 90]

InitProfile ==
    /\ InitRequests
    /\ InitNoGoals
    /\ InitNoTask
    /\ InitNoBlend
    /\ InitNoMachine
    /\ InitNoFields
    /\ InitNoGet
    /\ blob \in Contents(Doc(SampleTimex, <<>>, SampleTemp2, TimeIndex(0, 1, 2, 3), EmptyDict))
    /\ alog_file \in Contents(Doc(SampleTimex, <<>>, SampleTemp2, TimeIndex(0, 2, 3, 3), EmptyDict))
    /\ telemetry \in Telemetries
    /\ scalars \in {NoScalars, FullScalars}
    /\ profile_data = NoAnswer

NextProfile ==
    \/ GetProfileData

SpecProfile == InitProfile /\ [][NextProfile]_vars

\* ---- index-driven phases
\* documents whose indices are unset, at the charge sample, inside the
\* curve and past its end, with and without ET and a value computed before
PhaseDocs ==
    { Doc(SampleTimex, t1, t2, TimeIndex(c, d, f, x), before) :
        t1 \in {<<>>, SampleTemp2},
        t2 \in {SampleTemp2, SubSeq(SampleTemp2, 1, MaxSamples - 1)},
        c \in {-1, 0, 1}, d \in {-1, 0, 2, MaxSamples}, f \in {-1, 2, 3},
        x \in {-1, MaxSamples - 1, MaxSamples + 1},
        before \in {EmptyDict, Put(EmptyDict, "DRY_time", 99)} }

InitPhases ==
    /\ InitRequests
    /\ InitNoGoals
    /\ InitNoTask
    /\ InitNoBlend
    /\ InitNoMachine
    /\ InitNoFields
    /\ InitNoGet
    /\ blob \in {Content("document", doc) : doc \in PhaseDocs}
    /\ alog_file = NoContent
    /\ telemetry = NoTelemetry
    /\ scalars = NoScalars
    /\ profile_data = NoAnswer

NextPhases ==
    \/ GetProfileData

SpecPhases == InitPhases /\ [][NextPhases]_vars

\* ---- the roast counter
CounterClients ==
    Clients({"u1"}, RoastIds, {Payload(25 * (Kg \div 10), "B", NoBlend, <<>>)}, {Absent}, {TRUE})

NextCounter ==
    \/ Post("p1", Keys \cup {NoKey}, MaxSeqReqs)
    \/ PostLookup("p1", CounterClients)
    \/ PostDeduct("p1")
    \/ PostCommit("p1")
    \/ PostCounter("p1")
    \/ PostCounterFails("p1")
    \/ PostSaveCache("p1")
    \/ Respond("p1")

SpecCounter == Init /\ [][NextCounter]_vars

\* ---- the schedule check
\* a weekly task on Tuesday, early in the night or later
ScheduleTasks ==
    [is_active : {TRUE}, schedule_day_of_week : {1}, schedule_time : {1, 4},
     last_triggered_at : {Absent}]

InitSchedule ==
    /\ InitRequests
    /\ InitNoGoals
    /\ InitNoProfile
    /\ InitNoBlend
    /\ InitNoMachine
    /\ InitNoFields
    /\ InitNoGet
    /\ tz \in TimeZones
    /\ task \in ScheduleTasks
    /\ one_time = NoOneTime
    /\ history = <<>>
    /\ notifications = 0
    /\ nChecks = 0

NextSchedule ==
    \/ CheckScheduledTasks
    \/ AdvanceClock

SpecSchedule == InitSchedule /\ [][NextSchedule]_vars

\* ---- blend recipes
RecipePercentages == {0, 20, 40, 60}

BlendBodies ==
    {[has_recipe |-> TRUE, is_null |-> FALSE, recipe |-> r] :
        r \in SeqsUpTo(Coffees \X RecipePercentages, 3)}
    \cup {[has_recipe |-> TRUE, is_null |-> TRUE, recipe |-> <<>>],
          [has_recipe |-> FALSE, is_null |-> FALSE, recipe |-> <<>>]}

NextBlends ==
    \/ \E u \in Users, b \in BlendRows, body \in BlendBodies : create_blend(u, b, body)
    \/ \E u \in Users, b \in BlendRows, body \in BlendBodies : update_blend(u, b, body)

SpecBlends == Init /\ [][NextBlends]_vars

\* ---- reading a roast
GetClients ==
    Clients({"u1"}, {"r1"}, {Payload(25 * (Kg \div 10), "B", NoBlend, <<>>)}, 0 .. MaxTime, {TRUE})

InitGet ==
    /\ InitRequests
    /\ InitNoGoals
    /\ InitNoTask
    /\ InitNoBlend
    /\ InitNoMachine
    /\ InitNoFields
    /\ blob \in Contents(Doc(SampleTimex, <<>>, SampleTemp2, TimeIndex(0, 1, 2, 3), EmptyDict))
    /\ alog_file \in Contents(Doc(SampleTimex, <<>>, SampleTemp2, TimeIndex(0, 2, 3, 3), EmptyDict))
    /\ telemetry = NoTelemetry
    /\ scalars = NoScalars
    /\ profile_data = NoAnswer
    /\ has_details \in BOOLEAN
    /\ fetched = NoGet

NextGet ==
    \/ Post("p1", {NoKey}, MaxSeqReqs)
    \/ PostLookup("p1", GetClients)
    \/ PostDeduct("p1")
    \/ PostCommit("p1")
    \/ PostCounter("p1")
    \/ Respond("p1")
    \/ (Quiet /\ \E rid \in RoastIds \cup {"not-a-uuid"}, cm \in ClientMods : GetRoast(rid, cm))

SpecGet == InitGet /\ [][NextGet]_vars

\* ---- values computed before and the supplement from the roast's columns
\* the computed set a document brings along: empty, one event time, the
\* turning point in part, and events, totals and phases together
ComputedBefore ==
    { EmptyDict,
      Put(EmptyDict, "DRY_time", 99),
      Put(Put(EmptyDict, "TP_time", 5), "CHARGE_BT", 7),
      Put(Put(Put(Put(Put(EmptyDict, "FCs_time", 3), "DROP_BT", 4), "totaltime", 1),
              "dryphasetime", 2), "finishphasetime", 6) }

FirstWriterDocs ==
    { Doc(SampleTimex, t1, SampleTemp2, ti, before) :
        t1 \in {<<>>, SampleTemp2},
        ti \in {TimeIndex(0, 1, 2, 3), TimeIndex(1, 2, 3, MaxSamples + 1), <<0, 1, 2>>},
        before \in ComputedBefore }

PartScalars == [FullScalars EXCEPT !["DRY_time"] = Absent, !["TP_temp"] = Absent]

InitFirstWriter ==
    /\ InitRequests
    /\ InitNoGoals
    /\ InitNoTask
    /\ InitNoBlend
    /\ InitNoMachine
    /\ InitNoFields
    /\ InitNoGet
    /\ blob \in {NoContent} \cup {Content("document", doc) : doc \in FirstWriterDocs}
    /\ alog_file = NoContent
    /\ telemetry \in Telemetries
    /\ scalars \in {NoScalars, PartScalars, FullScalars}
    /\ profile_data = NoAnswer

NextFirstWriter ==
    \/ GetProfileData

SpecFirstWriter == InitFirstWriter /\ [][NextFirstWriter]_vars

\* ---- deletions against a batch whose roasted total was set by hand
RoastedTotals == {1 * Kg, 3 * Kg}

NextBatchTotal ==
    \/ Post("p1", {NoKey}, MaxSeqReqs)
    \/ PostLookup("p1", BatchClients)
    \/ PostDeduct("p1")
    \/ PostCommit("p1")
    \/ PostCounter("p1")
    \/ Delete("p1", {"r1"}, MaxSeqReqs)
    \/ DeleteRestore("p1")
    \/ DeleteCommit("p1")
    \/ Respond("p1")
    \/ (Quiet /\ \E t \in RoastedTotals : UpdateBatch(t))

SpecBatchTotal == Init /\ [][NextBatchTotal]_vars

\* ---- the one-time check
\* a task for today or tomorrow, without a time, at 02:00 or at 02:00:30,
\* not repeating or repeating after one or two days
OneTimeTasks ==
    [is_active : {TRUE}, scheduled_date : {0, 1},
     scheduled_time : {Absent, 2 * StepSeconds, 2 * StepSeconds + 30},
     repeat_after_days : {Absent, 1, 2}, last_triggered_at : {Absent}]

InitOneTime ==
    /\ InitRequests
    /\ InitNoGoals
    /\ InitNoProfile
    /\ InitNoBlend
    /\ InitNoMachine
    /\ InitNoFields
    /\ InitNoGet
    /\ tz \in TimeZones
    /\ task = [is_active |-> FALSE, schedule_day_of_week |-> 0, schedule_time |-> 0,
               last_triggered_at |-> Absent]
    /\ one_time \in OneTimeTasks
    /\ history = <<>>
    /\ notifications = 0
    /\ nChecks = 0

NextOneTime ==
    \/ CheckOneTimeTasks
    \/ AdvanceClock

SpecOneTime == InitOneTime /\ [][NextOneTime]_vars

\* ---- the scan of a curve without event indices
\* short curves over all choices of three temperatures, and curves longer
\* than the search window whose coldest sample is at, near or past its end
ShortCurves ==
    { [timex |-> SampleTimex, temp1 |-> <<>>, temp2 |-> bt, timeindex |-> <<>>] :
        bt \in [1 .. MaxSamples -> {130, 140, 150}] }

LongCurve(coldest) ==
    [timex |-> [i \in 1 .. TP_SEARCH + 3 |-> 2 * i],
     temp1 |-> <<>>,
     temp2 |-> [i \in 1 .. TP_SEARCH + 3 |->
                  IF i = 1 THEN 200 ELSE IF i = coldest + 1 THEN 90 ELSE 150],
     timeindex |-> <<>>]

LongCurves == {LongCurve(i) : i \in {1, TP_SEARCH - 2, TP_SEARCH - 1, TP_SEARCH, TP_SEARCH + 1}}

InitScan ==
    /\ InitRequests
    /\ InitNoGoals
    /\ InitNoTask
    /\ InitNoBlend
    /\ InitNoMachine
    /\ InitNoFields
    /\ InitNoGet
    /\ blob = NoContent
    /\ alog_file = NoContent
    /\ telemetry \in ShortCurves \cup LongCurves
    /\ scalars = NoScalars
    /\ profile_data = NoAnswer

NextScan ==
    \/ GetProfileData

SpecScan == InitScan /\ [][NextScan]_vars

\* ---- the roast counter under concurrent requests
CountClients ==
    Clients({"u1"}, RoastIds, {Payload(25 * (Kg \div 10), "B", NoBlend, <<>>)}, ClientMods, BOOLEAN)

NextCount ==
    \E p \in Procs :
        \/ Post(p, Keys \cup {NoKey}, MaxRaceReqs)
        \/ PostLookup(p, CountClients)
        \/ PostDeduct(p)
        \/ PostCommit(p)
        \/ PostCounterSelect(p)
        \/ PostCounterIncrement(p)
        \/ PostCounterReset(p)
        \/ PostSaveCache(p)
        \/ Respond(p)

SpecCount == Init /\ [][NextCount]_vars

\* ---- a counter task bound to machine m1
MachineNames == {NoMachine, "m1", "m2", "m9"}

MachineClients ==
    Clients(Users, RoastIds, {Payload(25 * (Kg \div 10), "B", NoBlend, <<>>)}, {Absent}, {TRUE})

InitMachine ==
    /\ InitRequests
    /\ InitNoGoals
    /\ InitNoProfile
    /\ InitNoTask
    /\ InitNoBlend
    /\ InitNoGet
    /\ machine_task = [is_active |-> TRUE, machine_id |-> "m1", counter_current_value |-> 0]
    /\ made_on = [r \in RoastIds |-> NoMachine]
    /\ InitNoFields

NextMachine ==
    \/ Post("p1", {NoKey}, MaxSeqReqs)
    \/ PostLookup("p1", MachineClients)
    \/ PostDeduct("p1")
    \/ PostCommit("p1")
    \/ \E name \in MachineNames : PostCounterOn("p1", name)
    \/ Respond("p1")

SpecMachine == InitMachine /\ [][NextMachine]_vars

\* ---- label, notes and colour of a roast through the upsert and the patch endpoint
FieldClients ==
    Clients({"u1"}, {"r1"}, {Payload(25 * (Kg \div 10), "B", NoBlend, <<>>)}, {Absent}, BOOLEAN)

\* the restricted fields a request body carries
FieldBodies ==
    {NoBody, [notes |-> "n2"], [notes |-> NoText], [label |-> "L2"], [whole_color |-> 60],
     [label |-> "L1", notes |-> "n1", whole_color |-> 55]}

\* the payloads of the quality-control edits
FieldPatches == {[notes |-> "q1"], [whole_color |-> 70], [label |-> "Q"], [label |-> ""]}

NextFields ==
    \/ Post("p1", {NoKey}, MaxSeqReqs)
    \/ \E body \in FieldBodies : PostLookupFields("p1", FieldClients, body)
    \/ PostDeduct("p1")
    \/ PostCommitFields("p1")
    \/ PostCounter("p1")
    \/ Respond("p1")
    \/ (Quiet /\ \E rid \in RoastIds, payload \in FieldPatches : PatchRoastFields(rid, payload))

SpecFields == Init /\ [][NextFields]_vars

\* ---- keyed requests that are answered with a client error
FailureClients ==
    [Clients({"u1"}, {"r1"},
             { Payload(25 * (Kg \div 10), "B", NoBlend, <<>>),
               Payload(Absent, NoCoffee, NoBlend, <<>>) },
             ClientMods, BOOLEAN)
        EXCEPT !.idfields = {"roast_id", "id"},
               !.bodies = {"json", "empty", "gzip_bad_header", "not_json", "not_object",
                           "no_id", "bad_id"}]

NextFailures ==
    \/ Post("p1", Keys \cup {NoKey}, MaxSeqReqs)
    \/ PostLookup("p1", FailureClients)
    \/ PostDeduct("p1")
    \/ PostCommit("p1")
    \/ PostCounter("p1")
    \/ PostSaveCache("p1")
    \/ Respond("p1")
    \/ (Quiet /\ Tick)

SpecFailures == Init /\ [][NextFailures]_vars

\* ---------------------------------------------------------------- claims
\* the stock a request finds for ingredient c (a placeholder row it has
\* just created counts with its starting stock)
Found(me, c) == IF c \in me.created THEN PlaceholderStock ELSE stock[c]

Committing(p) == proc[p].pc = "commit" /\ proc'[p].pc = "counter"

Deleting(p) == proc[p].pc = "dcommit" /\ proc'[p].resp.status = 204

\* C4: a roast that is created and then deleted, with no other ledger
\* operation in between, leaves every ingredient's stock exactly as it was
\* before the creation, and the roast is gone.
C4_RoundTrip ==
    [][\A p \in Procs :
          (Deleting(p) /\ clean[proc[p].rid])
              => (stock' = pre[proc[p].rid] /\ ~roasts'[proc[p].rid].ex)]_vars

\* C7: in every committed state, for each ingredient, stock plus the
\* quantities recorded for it in the stored roasts' ledger snapshots equals
\* its initial stock plus the stock added.
C7_Conservation ==
    \A c \in Coffees :
        stock[c] # NoRow => stock[c] + LedgerTotal(c) = base[c] + added[c]

\* C8: a new single-ingredient roast of amount a > 0 debits exactly a and
\* records [{ingredient, a}] when the stock is at least a, and otherwise
\* changes no stock and records nothing; the roast is created with a 201.
C8_SingleDeduction ==
    [][\A p \in Procs :
          (proc[p].pc = "commit" /\ proc[p].pol = "single" /\ ~roasts[proc[p].rid].ex
             /\ proc'[p].resp.status # 500)
          => LET me == proc[p]
                 c == me.coffee
                 s == Found(me, c)
             IN  /\ roasts'[me.rid].ex
                 /\ proc'[p].code = 201
                 /\ IF s >= me.amount
                      THEN /\ stock'[c] = s - me.amount
                           /\ roasts'[me.rid].ded = << <<c, me.amount>> >>
                      ELSE /\ stock'[c] = s
                           /\ roasts'[me.rid].ded = <<>>]_vars

\* the components of a blend whose ingredient the request finds with at
\* least its share in stock, in recipe order
RECURSIVE Debited(_, _, _)
Debited(me, comps, i) ==
    IF i > Len(comps) THEN <<>>
    ELSE LET c == comps[i][1]
             w == Share(me.amount, comps[i][2])
         IN  IF Found(me, c) >= w
               THEN <<<<c, w>>>> \o Debited(me, comps, i + 1)
               ELSE Debited(me, comps, i + 1)

\* C9: a new blend roast (Blend entity or inline) debits every component
\* whose ingredient has at least its share by exactly that share, skips the
\* others individually, and its snapshot lists exactly the debited components.
C9_BlendDeduction ==
    [][\A p \in Procs :
          (Committing(p) /\ proc[p].pol \in {"inline", "blend"})
          => LET me == proc[p]
                 deb == Debited(me, me.comps, 1)
             IN  /\ roasts'[me.rid].ded = deb
                 /\ \A c \in Coffees :
                       stock[c] # NoRow => stock'[c] = stock[c] - SumFor(deb, c)]_vars

\* C10: deleting a roast adds back to each ingredient exactly the quantity
\* recorded for it in the roast's ledger snapshot and touches no other
\* ingredient, whatever happened to the recipe, the green weight or the
\* stock since the creation.
C10_RestoreRecorded ==
    [][\A p \in Procs :
          Deleting(p)
          => \A c \in Coffees :
                stock'[c] = IF stock[c] = NoRow THEN NoRow
                            ELSE stock[c] + SumFor(roasts[proc[p].rid].ded, c)]_vars

C2_NonNegative ==
    /\ \A c \in Coffees : stock[c] = NoRow \/ stock[c] >= 0
    /\ \A p \in Procs : \A c \in proc[p].loaded : proc[p].sess[c] >= 0

C2_Witness ==
    \E r \in RoastIds :
        roasts[r].ex /\ roasts[r].coffee = "A" /\ roasts[r].ded = <<>>

\* the request p has just read asks to write roast r with a modified_at
\* strictly older than the stored one
Stale(p, r) ==
    /\ proc[p].pc = "lookup"
    /\ proc'[p].rid = r
    /\ roasts[r].ex
    /\ proc'[p].cm # Absent
    /\ proc'[p].cm < roasts[r].mod

Rejected409(p, r) ==
    /\ proc'[p].pc = "done"
    /\ proc'[p].resp.status = 409
    /\ proc'[p].resp.smod = roasts[r].mod
    /\ proc'[p].resp.cmod = proc'[p].cm
    /\ UNCHANGED <<roasts, stock, cache>>

\* C3: a POST for a stored roast R that carries a modified_at strictly older
\* than R's is answered 409 with both timestamps and leaves the roast, every
\* stock and the idempotency cache unchanged.
C3_StaleRejected ==
    [][\A p \in Procs : \A r \in RoastIds : Stale(p, r) => Rejected409(p, r)]_vars

\* C5: concurrent creations debiting the same ingredient serialize: the
\* stock left is the initial stock minus the quantities the stored roasts'
\* ledger snapshots record (no deletion or add-stock takes place).
C5_NoLostUpdate ==
    \A c \in Coffees :
        stock[c] = NoRow \/ base[c] - stock[c] = LedgerTotal(c)

\* C6: the quantities a roast's ledger snapshot records are restored to
\* stock at most once.
C6_RestoredOnce ==
    \A r \in RoastIds : restored[r] <= 1

\* C11: while a roast R is stored, no step of a POST for R by its owner
\* creates a second roast, deducts stock or changes R's ledger snapshot,
\* ingredient, blend, green weight or owner.
C11_NeverRecreated ==
    [][\A p \in Procs : \A r \in RoastIds :
          (/\ proc[p].op = "post" /\ proc'[p] # proc[p]
           /\ proc'[p].rid = r /\ roasts[r].ex /\ roasts[r].user = proc'[p].user)
          => /\ stock' = stock
             /\ roasts'[r].ex
             /\ roasts'[r].ded = roasts[r].ded
             /\ roasts'[r].user = roasts[r].user
             /\ roasts'[r].coffee = roasts[r].coffee
             /\ roasts'[r].blend = roasts[r].blend
             /\ roasts'[r].green = roasts[r].green]_vars

C11_Witness ==
    \E p \in Procs :
        /\ proc[p].pc = "done" /\ proc[p].resp.src \in {"existing", "partial"}
        /\ proc[p].key # NoKey
        /\ roasts[proc[p].rid].ded # <<>>

\* C12: whatever step a keyed creation dies at, a retry is never a server
\* error and a successful one leaves the roast stored; at all times each
\* ingredient's stock is its initial stock minus what the stored roast's
\* ledger snapshot records (one deduction for the one roast, none without it).
C12_RetryOnce ==
    /\ [](\A c \in Coffees : stock[c] # NoRow => stock[c] + LedgerTotal(c) = base[c])
    /\ [][\A p \in Procs :
            (/\ proc[p].op = "post" /\ proc[p].pc # "done" /\ proc'[p].pc = "done"
             /\ proc'[p].resp.src # "abort")
            => /\ proc'[p].resp.status < 500
               /\ (proc'[p].resp.status < 300 /\ proc'[p].resp.src # "cache")
                     => roasts'[proc'[p].rid].ex]_vars

C12_Witness ==
    \E p \in Procs :
        /\ proc[p].pc = "done" /\ proc[p].resp.src \in {"existing", "partial"}
        /\ proc[p].resp.status = 200
        /\ okKeys = {proc[p].key}
        /\ roasts[proc[p].rid].ex
        /\ nReq >= 2

\* C13: the stored modified_at of a roast never decreases.
C13_ModifiedMonotone ==
    [][\A r \in RoastIds :
          (roasts[r].ex /\ roasts'[r].ex) => roasts'[r].mod >= roasts[r].mod]_vars

\* C14: concurrent POSTs carrying the same key and roast complete without a
\* server error and leave one roast with one deduction: stock is the initial
\* stock minus what the stored roast's ledger snapshot records.
C14_BenignRace ==
    /\ \A p \in Procs :
          (proc[p].pc = "done" /\ proc[p].key # NoKey) => proc[p].resp.status < 500
    /\ \A c \in Coffees : stock[c] # NoRow => stock[c] + LedgerTotal(c) = base[c]

\* C15: a request carrying a key whose cache entry is older than 24 hours
\* is not answered from the entry: it goes on to be processed.
C15_Expired ==
    [][\A p \in Procs : \A k \in Keys :
          (/\ proc[p].pc = "idle" /\ proc'[p].op = "post" /\ proc'[p].key = k
           /\ cache[k].ex /\ now - cache[k].at > IDEMPOTENCY_TTL_HOURS)
          => proc'[p].pc = "lookup"]_vars

\* C16: the response replayed on a cache hit for key K has the status code
\* and the body of the response the original successful request with K got.
C16_SameResponse ==
    \A p, q \in Procs :
        (/\ proc[p].pc = "done" /\ proc[q].pc = "done"
         /\ proc[p].key # NoKey /\ proc[q].key = proc[p].key
         /\ proc[p].resp.src # "cache" /\ proc[p].resp.status < 300
         /\ proc[q].resp.src = "cache")
        => /\ proc[q].resp.status = proc[p].resp.status
           /\ proc[q].resp.data = proc[p].resp.data

\* C17: a POST is answered 409 only when the caller's roast is stored and
\* the body carries a modified_at strictly older than the stored one; with
\* an equal or newer modified_at, or with none, it is never a 409.
C17_ConflictOnlyIfOlder ==
    [][\A p \in Procs :
          (proc'[p].resp.status = 409 /\ proc[p].resp.status # 409)
          => /\ Stale(p, proc'[p].rid)
             /\ roasts[proc'[p].rid].user = proc'[p].user]_vars

C17_Witness ==
    \E p \in Procs :
        /\ proc[p].pc = "done" /\ proc[p].resp.status = 200
        /\ proc[p].resp.src = "existing"
        /\ proc[p].cm # Absent /\ proc[p].cm >= proc[p].resp.data.mod

\* C18: a POST for a stored roast of the caller that supplies no creation
\* date (and is not rejected as stale) sets modified_at to the current time
\* and leaves every stock, the batch and the roast's ledger snapshot, green
\* weight, ingredient, blend and batch binding unchanged.
C18_PartialUpdate ==
    [][\A p \in Procs : \A r \in RoastIds :
          (/\ proc[p].pc = "lookup" /\ proc'[p].rid = r
           /\ Existing(roasts[r], proc'[p].user)
           /\ ~proc'[p].date
           /\ ~Conflict(proc'[p].cm, roasts[r].mod))
          => /\ roasts'[r].mod = now
             /\ stock' = stock
             /\ batch' = batch
             /\ roasts'[r].ded = roasts[r].ded
             /\ roasts'[r].green = roasts[r].green
             /\ roasts'[r].coffee = roasts[r].coffee
             /\ roasts'[r].blend = roasts[r].blend
             /\ roasts'[r].batch_id = roasts[r].batch_id]_vars

\* C19: the creation of a roast linked to the batch lowers the batch's
\* current weight by the roast's green weight, raises its roasted total by
\* the roast's roasted weight and makes the batch depleted at zero.
C19_BatchDeducted ==
    [][\A p \in Procs :
          (Committing(p) /\ proc[p].batch_id # NoBatch)
          => LET row == roasts'[proc[p].rid]
             IN  /\ batch'.cur = batch.cur - row.green
                 /\ batch'.tot = batch.tot + row.roasted
                 /\ batch'.status = IF batch'.cur = 0 THEN "depleted" ELSE batch.status]_vars

\* C20: deleting a batch-linked roast, with nothing else done to the batch
\* since its creation, leaves the batch row as it was before the creation;
\* the batch's current weight never exceeds its initial weight.
C20_BatchRoundTrip ==
    /\ [](batch.cur <= BatchInitial)
    /\ [][\A p \in Procs :
            (Deleting(p) /\ clean[proc[p].rid] /\ roasts[proc[p].rid].batch_id # NoBatch)
            => batch' = preBatch[proc[p].rid]]_vars

\* C21: a creation whose payload names an ingredient (with a positive
\* amount) applies the single-ingredient policy only: no other ingredient's
\* stock changes and the snapshot lists at most that ingredient, also when
\* the payload names a blend as well and the ingredient is short.
C21_OnePolicy ==
    [][\A p \in Procs :
          (Committing(p) /\ proc[p].coffee # NoCoffee /\ proc[p].amount > 0)
          => LET ded == roasts'[proc[p].rid].ded
             IN  /\ Len(ded) <= 1
                 /\ \A i \in DOMAIN ded : ded[i][1] = proc[p].coffee
                 /\ \A c \in Coffees \ {proc[p].coffee} : stock'[c] = stock[c]]_vars

C21_Witness ==
    \E r \in RoastIds :
        /\ roasts[r].ex /\ roasts[r].coffee = "A" /\ roasts[r].blend = "b1"
        /\ roasts[r].ded = <<>>
        /\ stock = InitStock

\* C22: a request whose body is empty, fails gzip decompression, is not
\* UTF-8 JSON, is not an object or has no parsable roast identifier is
\* answered with a client error and writes nothing: no roast, no placeholder
\* ingredient, no stock change, no cache entry.
C22_MalformedRejected ==
    [][\A p \in Procs :
          (proc[p].pc = "lookup" /\ proc'[p].body # "json")
          => /\ proc'[p].pc = "done"
             /\ proc'[p].resp.status \in 400 .. 499
             /\ UNCHANGED dbvars]_vars

\* C23: with a reference value, an actual value and a positive tolerance, a
\* parameter is green exactly when reference - tolerance/2 <= actual <=
\* reference + tolerance/2 and red otherwise: a value on either bound
\* passes, a value one unit beyond fails.
C23_ClosedBand ==
    \A g \in DOMAIN goals_check.goals :
        LET goal == goals[goals_check.goals[g].goal_id]
        IN  \A k \in DOMAIN goal.parameters :
                LET pc == goal.parameters[k]
                    ref == ref_values[pc.name]
                    act == actual_values[pc.name]
                    in_band == /\ 2 * ref - pc.tolerance <= 2 * act
                               /\ 2 * act <= 2 * ref + pc.tolerance
                IN  (pc.enabled /\ ref # Absent /\ act # Absent /\ pc.tolerance > 0)
                    => goals_check.goals[g].parameters[pc.name]
                         = IF in_band THEN "green" ELSE "red"

\* a parameter of tolerance 2 was checked with the actual value on the lower
\* bound and is green, and another of tolerance 4 was checked with the actual
\* value one unit above the upper bound and is red
C23_Witness ==
    /\ goals_check.goals # <<>>
    /\ ref_values = [n \in ParamNames |-> 200 * Deg]
    /\ actual_values["charge_temp"] = 199 * Deg
    /\ actual_values["drop_temp"] = 202 * Deg + 1
    /\ DOMAIN goals_check.goals[1].parameters = ParamNames
    /\ goals_check.goals[1].parameters["charge_temp"] = "green"
    /\ goals_check.goals[1].parameters["drop_temp"] = "red"

Rank(st) == IF st = "red" THEN 2 ELSE IF st = "yellow" THEN 1 ELSE 0

\* the worst status of a set of statuses, green when the set is empty
Worst(S) ==
    IF \E st \in S : Rank(st) = 2 THEN "red"
    ELSE IF \E st \in S : Rank(st) = 1 THEN "yellow"
    ELSE "green"

\* what a parameter result counts for under the policies of its goal
Severity(goal, result) ==
    IF result = "red" THEN (IF goal.failed_status = "warning" THEN "yellow" ELSE "red")
    ELSE IF result = "yellow" THEN (IF goal.missing_value_status = "failed" THEN "red" ELSE "yellow")
    ELSE "green"

\* C24: a goal's status is the worst severity among its enabled parameters,
\* in whatever order they are evaluated (out of band: red, or yellow under
\* the 'warning' failure policy; missing value: yellow, or red under the
\* 'failed' missing-value policy); the overall status is the worst status
\* among the goals with a checked parameter; disabled parameters and goals
\* without checked parameters count for nothing.
C24_WorstSeverity ==
    goals_check.goals # <<>> =>
        /\ \A g \in DOMAIN goals_check.goals :
               LET res == goals_check.goals[g]
                   goal == goals[res.goal_id]
                   on == {k \in DOMAIN goal.parameters : goal.parameters[k].enabled}
               IN  /\ DOMAIN res.parameters = {goal.parameters[k].name : k \in on}
                   /\ res.status = Worst({Severity(goal, res.parameters[n]) :
                                              n \in DOMAIN res.parameters})
        /\ {goals_check.goals[g].goal_id : g \in DOMAIN goals_check.goals}
             = {i \in DOMAIN goals : \E k \in DOMAIN goals[i].parameters :
                                         goals[i].parameters[k].enabled}
        /\ goals_check.status = Worst({goals_check.goals[g].status :
                                          g \in DOMAIN goals_check.goals})
        /\ goals_status = goals_check.status

\* two goals, the first with nothing enabled; the second checked a missing
\* value first (yellow under 'warning') and an out-of-band value next (red
\* under 'failed'): it is red, and so is the roast
C24_Witness ==
    /\ Len(goals) = 2
    /\ Len(goals_check.goals) = 1
    /\ goals_check.goals[1].goal_id = 2
    /\ goals[2].parameters[1].name = "drop_temp"
    /\ goals_check.goals[1].parameters = [n \in ParamNames |->
                                             IF n = "drop_temp" THEN "yellow" ELSE "red"]
    /\ goals[2].failed_status = "failed"
    /\ goals[2].missing_value_status = "warning"
    /\ goals_check.goals[1].status = "red"
    /\ goals_check.status = "red"

\* C25: when no goal is active, or the roast has no reference profile (no
\* background identifier, or one that resolves to no reference roast), the
\* goal check yields 'not evaluated', which is none of green, yellow and red,
\* and the roast in the response has no goals status.
C25_NotEvaluated ==
    (goals_check # Unchecked /\ (goals = <<>> \/ background # "reference"))
    => /\ goals_check = NoneResult
       /\ goals_status = "absent"

\* a tier's content is unavailable or fails to parse
Gone(content) == content.kind # "document"

HasArrays == telemetry.timex # <<>> \/ telemetry.temp1 # <<>> \/ telemetry.temp2 # <<>>

C27_NeverAnError ==
    profile_data # NoAnswer
    => /\ profile_data.status = 200
       /\ (Gone(blob) /\ Gone(alog_file) /\ ~HasArrays) => profile_data.tier = "scalars"

\* the event slots of the timeindex with their time and BT keys
EventSlots ==
    { <<1, "DRY_time", "DRY_BT">>, <<2, "FCs_time", "FCs_BT">>, <<3, "FCe_time", "FCe_BT">>,
      <<4, "SCs_time", "SCs_BT">>, <<5, "SCe_time", "SCe_BT">>, <<6, "DROP_time", "DROP_BT">> }

C29_OncePerDay ==
    /\ \A i, j \in DOMAIN history :
           i # j => history[i] \div DayHours # history[j] \div DayHours
    /\ notifications <= Len(history)

\* C30: the counter increments are applied in the transaction of the roast's
\* ledger update: in every committed state the counter task has counted
\* exactly the roasts that exist, and a failed counter step does not leave a
\* roast committed without its count.
C30_CountedWithRoast ==
    counter = Cardinality({r \in RoastIds : roasts[r].ex}) % CounterTrigger


\* C31: every stored blend recipe has at least two components, no ingredient
\* twice and percentages that sum to exactly 100, after any sequence of
\* create and update operations.
C31_StoredRecipesValid ==
    \A b \in BlendRows :
        blends[b].ex =>
            /\ ~blends[b].json_null
            /\ Len(blends[b].recipe) >= 2
            /\ Cardinality({blends[b].recipe[i][1] : i \in DOMAIN blends[b].recipe})
                   = Len(blends[b].recipe)
            /\ PercentageSum(blends[b].recipe) = 100

\* C32: reading a stored roast with a client modified_at that is not older
\* than the server's answers 204, which differs from the 404 given for an
\* unknown identifier; with an older client modified_at, or none, the full
\* roast is returned (200).
C32_NoNewDataOrRoast ==
    (fetched.status # 0 /\ fetched.rid \in RoastIds) =>
        fetched.status = IF ~fetched.ex THEN 404
                     ELSE IF fetched.cm # Absent /\ fetched.cm >= fetched.mod THEN 204
                     ELSE 200

\* the computed set derived from the curve stored in the roast's columns
CurveDerived ==
    IF Len(telemetry.timeindex) >= 7
      THEN compute_computed_from_timeindex(
               Doc(telemetry.timex, telemetry.temp1, telemetry.temp2, telemetry.timeindex,
                   EmptyDict)).computed
      ELSE compute_computed_from_telemetry_arrays(telemetry.timex, telemetry.temp1,
                                                  telemetry.temp2)

\* C33: every key of the input's computed set keeps its value in the output
\* of compute_computed_from_timeindex, and the supplement from the roast's
\* scalar columns replaces no key derived from the curve.
C33_FirstWriterWins ==
    /\ profile_data.tier = "blob"
       => \A k \in DOMAIN blob.doc.computed :
              /\ k \in DOMAIN profile_data.computed
              /\ profile_data.computed[k] = blob.doc.computed[k]
    /\ profile_data.tier \in {"index", "scan"}
       => \A k \in DOMAIN CurveDerived :
              /\ k \in DOMAIN profile_data.computed
              /\ profile_data.computed[k] = CurveDerived[k]

\* a document that brings DRY_time = 99 along with a valid dry-end index:
\* the answer keeps 99, derives the dry phase from it and adds the
\* first-crack time from the curve
C33_Witness ==
    /\ profile_data.tier = "blob"
    /\ blob.doc.computed = Put(EmptyDict, "DRY_time", 99)
    /\ blob.doc.timeindex = TimeIndex(0, 1, 2, 3)
    /\ {"DRY_time", "dryphasetime", "FCs_time"} \subseteq DOMAIN profile_data.computed
    /\ profile_data.computed["DRY_time"] = 99
    /\ profile_data.computed["dryphasetime"] = 99
    /\ profile_data.computed["FCs_time"] = 120

\* C34: the roasted total of a batch is never negative; the deletion of a
\* batch-linked roast lowers it by the roast's roasted weight, or sets it to
\* zero when that would be negative, and completes: the roast is gone and
\* the answer is 204.
C34_ClampedAtZero ==
    [][ /\ batch'.tot >= 0
        /\ \A p \in Procs :
             (proc[p].pc = "dcommit" /\ proc'[p].pc # "dcommit" /\ proc[p].batch_id # NoBatch)
             => /\ batch'.tot = IF batch.tot < proc[p].roasted THEN 0
                                ELSE batch.tot - proc[p].roasted
                /\ ~roasts'[proc[p].rid].ex
                /\ proc'[p].resp.status = 204 ]_vars

\* the total was set to 1 kg and a batch-linked roast with 2 kg of roasted
\* coffee has then been deleted: the total is zero
C34_Witness ==
    /\ proc["p1"].op = "delete"
    /\ proc["p1"].resp.status = 204
    /\ batch.cur > BatchInitial
    /\ nPatches = 1
    /\ batch.tot = 0

\* C35: a one-time task never fires before its scheduled date nor, on that
\* date, before its scheduled time; a non-repeating one fires once, leaves
\* one history entry and is then inactive; a repeating one is rescheduled
\* repeat_after_days after the firing day and does not fire before that date.
C35_OneTimeFiring ==
    /\ \A i \in DOMAIN history :
           LET e == history[i]
           IN  /\ e.at \div DayHours >= e.date
               /\ (e.at \div DayHours = e.date /\ e.time # Absent)
                  => time_of_day(e.at) * StepSeconds >= e.time
    /\ one_time.repeat_after_days = Absent
       => /\ Len(history) <= 1
          /\ one_time.is_active <=> history = <<>>
    /\ one_time.repeat_after_days # Absent
       => /\ one_time.is_active
          /\ history # <<>>
             => one_time.scheduled_date =
                    history[Len(history)].at \div DayHours + one_time.repeat_after_days
          /\ \A i \in DOMAIN history :
                 i > 1 => history[i].at \div DayHours
                              >= history[i - 1].at \div DayHours + one_time.repeat_after_days

\* C36: without an event-index array, the turning point that the scan
\* reports is a sample of the first 120 samples of the curve after the
\* charge sample, and its temperature is the minimum of those samples.
C36_TurningPointIsMinimum ==
    LET bt == telemetry.temp2
        n == Min(Len(telemetry.timex), Len(bt))
        window == 1 .. Min(TP_SEARCH - 1, n - 1)
        out == profile_data.computed
    IN  (profile_data.tier = "scan" /\ "TP_BT" \in DOMAIN out)
        => \E i \in window :
               /\ out["TP_BT"] = bt[i + 1]
               /\ out["TP_time"] = telemetry.timex[i + 1] - telemetry.timex[1]
               /\ \A j \in window : bt[j + 1] >= bt[i + 1]

\* C37: the counter task (trigger value N, reset on trigger) counts the
\* newly created roasts and nothing else: once every request has been
\* processed its value is the number of created roasts modulo N, so
\* 0 <= value < N, and it has fired once for every N created roasts.
C37_CountsNewRoasts ==
    LET created == Cardinality({r \in RoastIds : roasts[r].ex})
    IN  Quiet => /\ counter = created % CounterTrigger
                 /\ Len(history) = created \div CounterTrigger

\* C38: a counter task bound to a machine counts only roasts made on that
\* machine: the counter step of a roast made on another machine, or of one
\* whose machine name matches no registered machine of its user, leaves the
\* task as it is.
C38_OtherMachinesNotCounted ==
    [][ \A p \in Procs :
          (proc[p].pc = "counter" /\ proc'[p].pc # "counter"
           /\ MachineId(proc[p].user, made_on'[proc[p].rid]) # machine_task.machine_id)
          => machine_task' = machine_task ]_vars


\* C39: on the partial-update branch a field of the restricted subset that the
\* payload does not carry keeps its stored value.
C39_AbsentFieldsKept ==
    [][\A p \in Procs :
          (proc[p].pc = "lookup" /\ proc'[p].resp.src = "partial")
              => \A k \in FieldKeys \ DOMAIN carried'[p] :
                    fields'[proc'[p].rid][k] = fields[proc'[p].rid][k]]_vars

\* C40: only successful responses are cached: the step that answers a keyed
\* request with a client error, a not-found error or a 409 conflict writes no
\* idempotency cache entry, a key has an entry only when a request carrying it
\* was answered successfully, and a request whose key has no such answer is
\* processed afresh and not answered from the cache.
C40_OnlySuccessCached ==
    /\ [](\A k \in Keys : cache[k].ex => (k \in okKeys /\ cache[k].data.ex))
    /\ [][\A p \in Procs :
            /\ (/\ proc[p].op = "post" /\ proc[p].pc # "done" /\ proc'[p].pc = "done"
                /\ proc'[p].key # NoKey /\ proc'[p].resp.status \in 400 .. 499)
               => (cache' = cache /\ ~cache'[proc'[p].key].ex)
            /\ (/\ proc[p].pc = "idle" /\ proc'[p].op = "post"
                /\ proc'[p].key \notin okKeys)
               => proc'[p].pc = "lookup"]_vars

\* a second or later request carrying the key was answered 409 and the key has no entry
C40_Witness ==
    \E p \in Procs :
        /\ proc[p].pc = "done" /\ proc[p].op = "post" /\ proc[p].key \in Keys
        /\ proc[p].resp.status = 409
        /\ nReq >= 2
        /\ ~cache[proc[p].key].ex

============================================================================
